---- MODULE Spec2Model ----
(***************************************************************************)
(* State-machine model of xapcppcore-audioio: the Recorder / Player        *)
(* stream objects (src/src/recorder.cc holds recorder.cc and player.cc),   *)
(* their factories, their PortAudio trampolines and the DeviceManager      *)
(* singleton (src/src/device.cc).                                          *)
(*                                                                         *)
(* Two threads act on one stream object: the control thread (variable      *)
(* ctl_pc) and the backend's real-time thread (variable rt_pc).            *)
(***************************************************************************)
EXTENDS Integers, Sequences, FiniteSets, TLC

(***************************************************************************)
(* Bounds of the model.                                                    *)
(***************************************************************************)
\* Cap of the backend's initialization counter (a constructor that throws
\* after Pa_Initialize never calls Pa_Terminate, so the counter can grow).
MaxPaInit == 2
\* Cap of the number of strong references to the DeviceManager.
MaxRefs == 1

\* Cap of the number of devices in the backend's device table.
MaxDevices == 2

\* portaudio.h: the index that stands for "no device".
paNoDevice == -1

(***************************************************************************)
(* Values.                                                                 *)
(***************************************************************************)
Kinds == {"Recorder", "Player"}
Entries == {"load_unique_pointer", "load_shared_pointer", "new_instance"}
\* The closures a user registers. "Empty" is a default-constructed
\* std::function; "Torn" is a std::function in the middle of an assignment.
Closures == {"cb1", "cb2"}
ErrorClosures == {"ecb1"}
\* What a user closure does when invoked: it returns, or it throws
\* an exception of one of these kinds.
ClosureOutcomes ==
    {"none", "std_exception", "system_error", "Exception", "non_std"}

NoExc == [type |-> "none", code |-> "none"]
XapExc(c) == [type |-> "Exception", code |-> c]
Thrown(t) == [type |-> t, code |-> "none"]

NoOp ==
    [name |-> "none", kind |-> "none", entry |-> "none", pre_running |-> FALSE,
     forcibly |-> FALSE, arg |-> "Empty", old |-> "Empty", pre_init |-> 0,
     calls |-> <<>>, oks |-> <<>>, raised |-> NoExc, done |-> TRUE]

NoCycle ==
    [kind |-> "none", buffer_ok |-> TRUE,
     audio_calls |-> 0, audio_cause |-> "none", audio_outcome |-> "none",
     audio_raised |-> NoExc, invoked |-> "Empty",   \* closure now running
     error_calls |-> 0, error_cause |-> "none", error_outcome |-> "none",
     error_raised |-> NoExc, error_arg |-> "none", error_invoked |-> "Empty",
     error_slot |-> "Empty",
     nested |-> "none",      \* a set call made from inside a closure
     copied |-> FALSE, guarded |-> TRUE, result |-> "none"]

(***************************************************************************)
(* Values of the DeviceManager side (src/src/device.cc).                   *)
(***************************************************************************)
\* The threads that use the DeviceManager singleton.
Threads == {"t1", "t2"}
\* Storage for DeviceManager objects: one per thread can exist at a time.
Managers == 1 .. Cardinality(Threads)

\* A DeviceManager object: its strong reference count, its lifetime
\* ("none", "alive", or "dying": the count is 0 and the destructor has not
\* ended), and the owners of m_input_device_lock / m_output_device_lock.
NoManager ==
    [strong |-> 0, life |-> "none",
     m_input_device_lock |-> "free", m_output_device_lock |-> "free"]

\* A thread: its position, the manager its shared_ptr refers to (0: none),
\* and the record of its current / last call.
NoCall ==
    [pc |-> "idle", mgr |-> 0, name |-> "none", direction |-> "none",
     pre_live |-> 0, made |-> 0, destroyed |-> 0, calls |-> <<>>,
     injected |-> FALSE,
     raced |-> FALSE, raised |-> NoExc, result |-> <<>>]

\* The backend's device table: Pa_GetDeviceCount(), the default indices and
\* Pa_GetDeviceInfo(i) for i = 0 .. count - 1 (info[i + 1]).
NoTable ==
    [count |-> 0, default_input |-> paNoDevice, default_output |-> paNoDevice,
     info |-> <<>>]

\* RecorderOptions / PlayerOptions: the fields the data path depends on.
NoOptions == [channel_count |-> 1, frame_pre_buffer |-> 1]

\* The record of one cycle's data transfer: the stream's class, the frame
\* count the backend passed, the backend's region after the cycle, the
\* buffer built for the cycle (its length, its content after the audio
\* closure ended), the closure's outcome and what the error closure got.
NoTransfer ==
    [kind |-> "none", frames |-> 0, region |-> <<>>, buffer_ok |-> TRUE,
     datalen |-> 0, data |-> <<>>, outcome |-> "none", written |-> FALSE,
     error_calls |-> 0, error_arg |-> "none", result |-> "none",
     cycle |-> 0]

\* The record of one device query: the function, its error, its value.
NoQuery == [name |-> "none", raised |-> NoExc, result |-> <<>>]

VARIABLES
    kind,               \* "none", or the class of the live stream object
    m_is_running,       \* Recorder::m_is_running / Player::m_is_running
    m_audio_callback,   \* the audio slot
    m_error_callback,   \* the error slot
    m_audio_callback_lock,  \* "free", "ctl" or "rt"
    m_error_callback_lock,  \* "free", "ctl" or "rt"
    pa_init_count,      \* the backend's count of unmatched Pa_Initialize
    pa_stream,          \* "none", "stopped" or "active": the backend stream
    mgr_refs,           \* strong references to the DeviceManager singleton
    ctl_pc,             \* position of the control thread
    rt_pc,              \* position of the real-time thread in the trampoline
    op,                 \* record of the control thread's current / last call
    cycle,              \* record of the current / last trampoline cycle
    last_set_audio,     \* closure of the last set_audio_callback that returned
    m_instance,         \* DeviceManager::m_instance: 0 (expired), or a manager
    m_instance_lock,    \* DeviceManager::m_instance_lock: "free" or a thread
    managers,           \* per manager: strong references and lifetime
    thr,                \* per client thread: position, reference, current call
    pa_teardown,        \* the threads inside the backend's teardown
    pa_raced,           \* a backend call has overlapped the backend's teardown
    pa_table,           \* the backend's device table
    enum_call,          \* record of the last device query on a manager
    options,            \* the options the scenario's streams are made with
    audio_queue,        \* remaining size of the scenario's BufferQueue
    main_pc,            \* position of the scenario's main thread
    io,                 \* record of the last cycle's data transfer
    faulted,            \* an allocation or lock failure has been injected
    instance,           \* the caller's IRecorder * / IPlayer * variable
    freed               \* the calls of free() on the stream object's memory

vars ==
    <<kind, m_is_running, m_audio_callback, m_error_callback,
      m_audio_callback_lock, m_error_callback_lock, pa_init_count, pa_stream,
      mgr_refs, ctl_pc, rt_pc, op, cycle, last_set_audio,
      m_instance, m_instance_lock, managers, thr, pa_teardown, pa_raced,
      pa_table, enum_call, options, audio_queue, main_pc, io, faulted,
      instance, freed>>

streamVars ==
    <<kind, m_is_running, m_audio_callback, m_error_callback,
      m_audio_callback_lock, m_error_callback_lock, pa_stream, mgr_refs,
      ctl_pc, rt_pc, op, cycle, last_set_audio>>
deviceVars ==
    <<m_instance, m_instance_lock, managers, thr, pa_teardown, pa_raced>>
enumVars == <<enum_call>>
\* What the operations on a stream leave alone.
playVars == <<options, audio_queue, main_pc, io, faulted>>
freeVars == <<instance, freed>>
otherVars == <<deviceVars, pa_table, enumVars, playVars, freeVars>>

objVars == <<kind>>
slotVars == <<m_audio_callback, m_error_callback>>
lockVars == <<m_audio_callback_lock, m_error_callback_lock>>
rtVars == <<rt_pc, cycle>>
ghostVars == <<last_set_audio>>

\* The stream side before any stream object is constructed.
StreamInit ==
    /\ kind = "none"
    /\ m_is_running = FALSE
    /\ m_audio_callback = "Empty"
    /\ m_error_callback = "Empty"
    /\ m_audio_callback_lock = "free"
    /\ m_error_callback_lock = "free"
    /\ pa_init_count = 0
    /\ pa_stream = "none"
    /\ mgr_refs = 0
    /\ ctl_pc = "idle"
    /\ rt_pc = "idle"
    /\ op = NoOp
    /\ cycle = NoCycle
    /\ last_set_audio = "Empty"

\* The DeviceManager side before any thread has acquired the singleton.
DeviceInit ==
    /\ m_instance = 0
    /\ m_instance_lock = "free"
    /\ managers = [m \in Managers |-> NoManager]
    /\ thr = [t \in Threads |-> NoCall]
    /\ pa_teardown = {}
    /\ pa_raced = FALSE

\* No device query has been made.
EnumInit == enum_call = NoQuery

\* No capture-then-playback scenario is running.
PlayInit ==
    /\ options = NoOptions
    /\ audio_queue = 0
    /\ main_pc = "none"
    /\ io = NoTransfer
    /\ faulted = FALSE

\* No raw pointer to a stream object is held.
FreeInit ==
    /\ instance = "nullptr"
    /\ freed = 0

Init ==
    /\ StreamInit
    /\ DeviceInit
    /\ pa_table = NoTable
    /\ EnumInit
    /\ PlayInit
    /\ FreeInit

(***************************************************************************)
(* error.cc                                                                *)
(***************************************************************************)
\* pacall_assert(error): throws ERROR_PORTAUDIOCALL unless error is paNoError.
pacall_assert_skip(ok) == NoExc
pacall_assert(ok) == IF ok THEN NoExc ELSE XapExc("ERROR_PORTAUDIOCALL")

(***************************************************************************)
(* Construction: Recorder::Recorder / Player::Player and the factories.    *)
(***************************************************************************)
\* The backend calls of a constructor that opens the stream whatever the
\* dry run says.
CtorCallsOpensAnyway(initOk, fmtOk, openOk) ==
    IF ~initOk THEN <<"Pa_Initialize">>
    ELSE <<"Pa_Initialize", "Pa_IsFormatSupported", "Pa_OpenStream">>

\* The backend calls the constructor issues, in order, given the outcome of
\* each call.
CtorCalls(initOk, fmtOk, openOk) ==
    IF ~initOk THEN <<"Pa_Initialize">>
    ELSE IF ~fmtOk THEN <<"Pa_Initialize", "Pa_IsFormatSupported">>
    ELSE <<"Pa_Initialize", "Pa_IsFormatSupported", "Pa_OpenStream">>

\* The outcomes of those calls.
CtorOks(initOk, fmtOk, openOk) ==
    IF ~initOk THEN <<FALSE>>
    ELSE IF ~fmtOk THEN <<TRUE, FALSE>>
    ELSE <<TRUE, TRUE, openOk>>

\* The exception the constructor throws.
CtorThrows(initOk, fmtOk, openOk) ==
    IF ~initOk THEN pacall_assert(FALSE)
    ELSE IF ~fmtOk THEN XapExc("ERROR_UNSUPPORTED")
    ELSE pacall_assert(openOk)

\* The catch clauses of the factory entry points around `new`:
\* RecorderFactory::load_unique_pointer catches xap::audioio::Exception and
\* rethrows it as ERROR_ALLOC; every other entry point catches std::bad_alloc.
FactoryCatch(k, e, exc) ==
    IF k = "Recorder" /\ e = "load_unique_pointer"
    THEN IF exc.type = "Exception" THEN XapExc("ERROR_ALLOC") ELSE exc
    ELSE IF exc.type = "bad_alloc" THEN XapExc("ERROR_ALLOC") ELSE exc

Construct(k, e, allocOk, initOk, fmtOk, openOk) ==
    /\ ctl_pc = "idle"
    /\ kind = "none"
    /\ pa_stream = "none"
    /\ pa_init_count < MaxPaInit
    /\ LET exc == IF allocOk THEN CtorThrows(initOk, fmtOk, openOk)
                  ELSE Thrown("bad_alloc")
           made == exc = NoExc
       IN /\ op' = [NoOp EXCEPT !.name = "construct", !.kind = k, !.entry = e,
                         !.pre_init = pa_init_count,
                         !.calls = IF allocOk
                                   THEN CtorCalls(initOk, fmtOk, openOk)
                                   ELSE <<>>,
                         !.oks = IF allocOk
                                 THEN CtorOks(initOk, fmtOk, openOk)
                                 ELSE <<>>,
                         !.raised = FactoryCatch(k, e, exc)]
          /\ pa_init_count' =
                IF allocOk /\ initOk THEN pa_init_count + 1 ELSE pa_init_count
          /\ kind' = IF made THEN k ELSE "none"
          /\ pa_stream' = IF made THEN "stopped" ELSE "none"
    /\ m_is_running' = FALSE
    /\ m_audio_callback' = "Empty"
    /\ m_error_callback' = "Empty"
    /\ last_set_audio' = "Empty"
    /\ ctl_pc' = "return"
    /\ UNCHANGED <<lockVars, mgr_refs, rtVars>>
    /\ UNCHANGED otherVars

(***************************************************************************)
(* Recorder::start / Player::start                                         *)
(***************************************************************************)
StartCheckInverted(running) == running
\* if (this->m_is_running) throw ...: whether start goes on to the backend.
StartCheckMissing(running) == TRUE
StartCheckPasses(running) == ~running

\* The test of the running flag.
StartCheck ==
    /\ ctl_pc = "idle"
    /\ kind \in Kinds
    /\ IF StartCheckPasses(m_is_running)
       THEN /\ ctl_pc' = "start_pa"
            /\ op' = [NoOp EXCEPT !.name = "start", !.kind = kind,
                            !.pre_running = m_is_running, !.done = FALSE]
       ELSE /\ ctl_pc' = "return"
            /\ op' = [NoOp EXCEPT !.name = "start", !.kind = kind,
                            !.pre_running = m_is_running,
                            !.raised = XapExc("ERROR_INVALIDOPERATION")]
    /\ UNCHANGED <<objVars, m_is_running, slotVars, lockVars, pa_init_count,
                   pa_stream, mgr_refs, rtVars, ghostVars>>
    /\ UNCHANGED otherVars

\* pacall_assert(Pa_StartStream(m_stream)).
StartPa(ok) ==
    /\ ctl_pc = "start_pa"
    /\ pa_stream' = IF ok THEN "active" ELSE pa_stream
    /\ LET exc == pacall_assert(ok)
       IN IF exc = NoExc
          THEN /\ ctl_pc' = "start_set"
               /\ op' = [op EXCEPT !.calls = Append(@, "Pa_StartStream"),
                               !.oks = Append(@, ok)]
          ELSE /\ ctl_pc' = "return"
               /\ op' = [op EXCEPT !.calls = Append(@, "Pa_StartStream"),
                               !.oks = Append(@, ok), !.raised = exc, !.done = TRUE]
    /\ UNCHANGED <<objVars, m_is_running, slotVars, lockVars, pa_init_count,
                   mgr_refs, rtVars, ghostVars>>
    /\ UNCHANGED otherVars

\* m_is_running = true.
StartSet ==
    /\ ctl_pc = "start_set"
    /\ m_is_running' = TRUE
    /\ ctl_pc' = "return"
    /\ op' = [op EXCEPT !.done = TRUE]
    /\ UNCHANGED <<objVars, slotVars, lockVars, pa_init_count, pa_stream,
                   mgr_refs, rtVars, ghostVars>>
    /\ UNCHANGED otherVars

(***************************************************************************)
(* Recorder::stop / Player::stop                                           *)
(***************************************************************************)
StopCheckPasses(running) == running

\* The backend call stop(forcibly) makes.
StopCallSwapped(forcibly) ==
    IF forcibly THEN "Pa_StopStream" ELSE "Pa_AbortStream"
StopCall(forcibly) == IF forcibly THEN "Pa_AbortStream" ELSE "Pa_StopStream"

\* Whether stop clears the running flag, given the backend call's outcome.
StopClearsNever(ok) == FALSE
StopClearsAlways(ok) == TRUE
StopClears(ok) == pacall_assert(ok) = NoExc

StopCheck(forcibly) ==
    /\ ctl_pc = "idle"
    /\ kind \in Kinds
    /\ IF StopCheckPasses(m_is_running)
       THEN /\ ctl_pc' = "stop_pa"
            /\ op' = [NoOp EXCEPT !.name = "stop", !.kind = kind,
                            !.forcibly = forcibly,
                            !.pre_running = m_is_running, !.done = FALSE]
       ELSE /\ ctl_pc' = "return"
            /\ op' = [NoOp EXCEPT !.name = "stop", !.kind = kind,
                            !.forcibly = forcibly,
                            !.pre_running = m_is_running,
                            !.raised = XapExc("ERROR_INVALIDOPERATION")]
    /\ UNCHANGED <<objVars, m_is_running, slotVars, lockVars, pa_init_count,
                   pa_stream, mgr_refs, rtVars, ghostVars>>
    /\ UNCHANGED otherVars

BackendReturnsAtOnce == TRUE
\* The backend's Pa_StopStream / Pa_AbortStream / Pa_CloseStream return only
\* when no callback invocation is in progress.
BackendQuiescent == rt_pc = "idle"

\* pacall_assert(Pa_AbortStream(m_stream)) or
\* pacall_assert(Pa_StopStream(m_stream)).
StopPa(ok) ==
    /\ ctl_pc = "stop_pa"
    /\ BackendQuiescent
    /\ pa_stream' = IF ok THEN "stopped" ELSE pa_stream
    /\ IF StopClears(ok)
       THEN /\ ctl_pc' = "stop_set"
            /\ op' = [op EXCEPT !.calls = Append(@, StopCall(op.forcibly)),
                            !.oks = Append(@, ok)]
       ELSE /\ ctl_pc' = "return"
            /\ op' = [op EXCEPT !.calls = Append(@, StopCall(op.forcibly)),
                            !.oks = Append(@, ok),
                            !.raised = pacall_assert(ok), !.done = TRUE]
    /\ UNCHANGED <<objVars, m_is_running, slotVars, lockVars, pa_init_count,
                   mgr_refs, rtVars, ghostVars>>
    /\ UNCHANGED otherVars

\* m_is_running = false.
StopSet ==
    /\ ctl_pc = "stop_set"
    /\ m_is_running' = FALSE
    /\ ctl_pc' = "return"
    /\ op' = [op EXCEPT !.done = TRUE]
    /\ UNCHANGED <<objVars, slotVars, lockVars, pa_init_count, pa_stream,
                   mgr_refs, rtVars, ghostVars>>
    /\ UNCHANGED otherVars

(***************************************************************************)
(* std::lock_guard<std::mutex> on a slot's lock.                           *)
(***************************************************************************)
\* A thread takes the lock only when no thread holds it.
CanLockAlways(lock) == TRUE
CanLock(lock) == lock = "free"

\* The mutex the lock_guard of set_audio_callback / emit_audio_callback
\* names, and the one set_error_callback / emit_error_callback name.
AudioSlotLock == m_audio_callback_lock
ErrorSlotLockIsAudioLock == m_audio_callback_lock
ErrorSlotLock == m_error_callback_lock

(***************************************************************************)
(* Recorder::set_audio_callback / Player::set_audio_callback               *)
(***************************************************************************)
\* this->m_audio_callback = callback: the slot's value after the assignment.
SlotAfterSetKeepsFirst(old, callback) ==
    IF old \in Closures THEN old ELSE callback
SlotAfterSet(old, callback) == callback

SetAudioCall(callback) ==
    /\ ctl_pc = "idle"
    /\ kind \in Kinds
    /\ ctl_pc' = "seta_lock"
    /\ op' = [NoOp EXCEPT !.name = "set_audio_callback", !.kind = kind,
                    !.pre_running = m_is_running, !.arg = callback,
                    !.done = FALSE]
    /\ UNCHANGED <<objVars, m_is_running, slotVars, lockVars, pa_init_count,
                   pa_stream, mgr_refs, rtVars, ghostVars>>
    /\ UNCHANGED otherVars

\* The lock_guard's constructor: it takes the lock and the assignment begins,
\* or std::mutex::lock throws std::system_error, which the method rethrows
\* as ERROR_SYSTEMCALL.
SetAudioLock(lockOk) ==
    /\ ctl_pc = "seta_lock"
    /\ IF lockOk
       THEN /\ CanLock(AudioSlotLock)
            /\ m_audio_callback_lock' = "ctl"
            /\ m_audio_callback' = "Torn"
            /\ ctl_pc' = "seta_assign"
            /\ op' = [op EXCEPT !.old = m_audio_callback]
       ELSE /\ ctl_pc' = "return"
            /\ op' = [op EXCEPT !.raised = XapExc("ERROR_SYSTEMCALL"),
                            !.done = TRUE]
            /\ UNCHANGED <<m_audio_callback_lock, m_audio_callback>>
    /\ UNCHANGED <<objVars, m_is_running, m_error_callback,
                   m_error_callback_lock, pa_init_count, pa_stream, mgr_refs,
                   rtVars, ghostVars>>
    /\ UNCHANGED otherVars

\* The assignment completes.
SetAudioAssign ==
    /\ ctl_pc = "seta_assign"
    /\ m_audio_callback' = SlotAfterSet(op.old, op.arg)
    /\ ctl_pc' = "seta_unlock"
    /\ UNCHANGED <<objVars, m_is_running, m_error_callback, lockVars,
                   pa_init_count, pa_stream, mgr_refs, rtVars, op, ghostVars>>
    /\ UNCHANGED otherVars

\* The lock_guard's destructor, and the return.
SetAudioUnlock ==
    /\ ctl_pc = "seta_unlock"
    /\ m_audio_callback_lock' = "free"
    /\ last_set_audio' = op.arg
    /\ ctl_pc' = "return"
    /\ op' = [op EXCEPT !.done = TRUE]
    /\ UNCHANGED <<objVars, m_is_running, slotVars, m_error_callback_lock,
                   pa_init_count, pa_stream, mgr_refs, rtVars>>
    /\ UNCHANGED otherVars

(***************************************************************************)
(* Recorder::set_error_callback / Player::set_error_callback               *)
(***************************************************************************)
SetErrorCall(callback) ==
    /\ ctl_pc = "idle"
    /\ kind \in Kinds
    /\ ctl_pc' = "sete_lock"
    /\ op' = [NoOp EXCEPT !.name = "set_error_callback", !.kind = kind,
                    !.pre_running = m_is_running, !.arg = callback,
                    !.done = FALSE]
    /\ UNCHANGED <<objVars, m_is_running, slotVars, lockVars, pa_init_count,
                   pa_stream, mgr_refs, rtVars, ghostVars>>
    /\ UNCHANGED otherVars

SetErrorLock(lockOk) ==
    /\ ctl_pc = "sete_lock"
    /\ IF lockOk
       THEN /\ CanLock(ErrorSlotLock)
            /\ m_error_callback_lock' = "ctl"
            /\ m_error_callback' = "Torn"
            /\ ctl_pc' = "sete_assign"
            /\ op' = [op EXCEPT !.old = m_error_callback]
       ELSE /\ ctl_pc' = "return"
            /\ op' = [op EXCEPT !.raised = XapExc("ERROR_SYSTEMCALL"),
                            !.done = TRUE]
            /\ UNCHANGED <<m_error_callback_lock, m_error_callback>>
    /\ UNCHANGED <<objVars, m_is_running, m_audio_callback,
                   m_audio_callback_lock, pa_init_count, pa_stream, mgr_refs,
                   rtVars, ghostVars>>
    /\ UNCHANGED otherVars

SetErrorAssign ==
    /\ ctl_pc = "sete_assign"
    /\ m_error_callback' = SlotAfterSet(op.old, op.arg)
    /\ ctl_pc' = "sete_unlock"
    /\ UNCHANGED <<objVars, m_is_running, m_audio_callback, lockVars,
                   pa_init_count, pa_stream, mgr_refs, rtVars, op, ghostVars>>
    /\ UNCHANGED otherVars

SetErrorUnlock ==
    /\ ctl_pc = "sete_unlock"
    /\ m_error_callback_lock' = "free"
    /\ ctl_pc' = "return"
    /\ op' = [op EXCEPT !.done = TRUE]
    /\ UNCHANGED <<objVars, m_is_running, slotVars, m_audio_callback_lock,
                   pa_init_count, pa_stream, mgr_refs, rtVars, ghostVars>>
    /\ UNCHANGED otherVars

(***************************************************************************)
(* Recorder::~Recorder / Player::~Player                                   *)
(***************************************************************************)
\* The argument of the destructor's stop call: ~Recorder calls this->stop()
\* (forcibly defaults to false), ~Player calls this->stop(true).
DtorForcibly(k) == k = "Player"

\* The destructor's catch clause around stop: what still propagates.
DtorCatchNothing(exc) == exc
DtorCatch(exc) == IF exc.type = "Exception" THEN NoExc ELSE exc

\* Pa_Terminate: the backend closes its streams when the count reaches 0.
StreamAfterTerminate(count, stream) == IF count <= 1 THEN "none" ELSE stream
\* Pa_Terminate that closes a stream returns, like Pa_CloseStream, only
\* when no callback invocation of the stream is in progress.
TerminateReturns(count, stream) ==
    StreamAfterTerminate(count, stream) # stream => BackendQuiescent
CountAfterTerminateKeeps(count) == count
CountAfterTerminate(count) == IF count > 0 THEN count - 1 ELSE 0

DtorBegin ==
    /\ ctl_pc = "idle"
    /\ kind \in Kinds
    /\ ctl_pc' = IF m_is_running THEN "dtor_stop" ELSE "dtor_close"
    /\ op' = [NoOp EXCEPT !.name = "destruct", !.kind = kind,
                    !.pre_running = m_is_running,
                    !.pre_init = pa_init_count, !.done = FALSE]
    /\ UNCHANGED <<objVars, m_is_running, slotVars, lockVars, pa_init_count,
                   pa_stream, mgr_refs, rtVars, ghostVars>>
    /\ UNCHANGED otherVars

\* try { this->stop(...); } catch (xap::audioio::Exception &) {}
DtorStop(ok) ==
    /\ ctl_pc = "dtor_stop"
    /\ BackendQuiescent
    /\ pa_stream' = IF ok THEN "stopped" ELSE pa_stream
    /\ m_is_running' = IF StopClears(ok) THEN FALSE ELSE m_is_running
    /\ LET exc == DtorCatch(pacall_assert(ok))
       IN IF exc = NoExc
          THEN /\ ctl_pc' = "dtor_close"
               /\ op' = [op EXCEPT
                           !.calls = Append(@, StopCall(DtorForcibly(kind))),
                           !.oks = Append(@, ok)]
          ELSE /\ ctl_pc' = "return"
               /\ op' = [op EXCEPT
                           !.calls = Append(@, StopCall(DtorForcibly(kind))),
                           !.oks = Append(@, ok),
                           !.raised = exc, !.done = TRUE]
    /\ UNCHANGED <<objVars, slotVars, lockVars, pa_init_count, mgr_refs,
                   rtVars, ghostVars>>
    /\ UNCHANGED otherVars

\* Pa_CloseStream(m_stream); its result is ignored.
DtorClose(ok) ==
    /\ ctl_pc = "dtor_close"
    /\ BackendQuiescent
    /\ pa_stream' = IF ok THEN "none" ELSE pa_stream
    /\ ctl_pc' = "dtor_term"
    /\ op' = [op EXCEPT !.calls = Append(@, "Pa_CloseStream"),
                    !.oks = Append(@, ok)]
    /\ UNCHANGED <<objVars, m_is_running, slotVars, lockVars, pa_init_count,
                   mgr_refs, rtVars, ghostVars>>
    /\ UNCHANGED otherVars

\* Pa_Terminate(); then the object's members and memory are released.
DtorTerminate ==
    /\ ctl_pc = "dtor_term"
    /\ TerminateReturns(pa_init_count, pa_stream)
    /\ pa_init_count' = CountAfterTerminate(pa_init_count)
    /\ pa_stream' = StreamAfterTerminate(pa_init_count, pa_stream)
    /\ kind' = "none"
    /\ m_is_running' = FALSE
    /\ m_audio_callback' = "Empty"
    /\ m_error_callback' = "Empty"
    /\ last_set_audio' = "Empty"
    /\ ctl_pc' = "return"
    /\ op' = [op EXCEPT !.calls = Append(@, "Pa_Terminate"),
                    !.oks = Append(@, TRUE), !.done = TRUE]
    /\ UNCHANGED <<lockVars, mgr_refs, rtVars>>
    /\ UNCHANGED otherVars

(***************************************************************************)
(* DeviceManager::load_shared_instance and the release of a reference.     *)
(***************************************************************************)
DeviceManagerCtorAlloc(initOk) ==
    IF initOk THEN NoExc ELSE XapExc("ERROR_ALLOC")
\* DeviceManager::DeviceManager: Pa_Initialize, ERROR_PORTAUDIOCALL on failure.
DeviceManagerCtor(initOk) ==
    IF initOk THEN NoExc ELSE XapExc("ERROR_PORTAUDIOCALL")

load_shared_instance(initOk) ==
    /\ ctl_pc = "idle"
    /\ mgr_refs < MaxRefs
    /\ IF mgr_refs > 0
       THEN /\ mgr_refs' = mgr_refs + 1
            /\ op' = [NoOp EXCEPT !.name = "load_shared_instance",
                            !.pre_init = pa_init_count]
            /\ UNCHANGED pa_init_count
       ELSE /\ pa_init_count < MaxPaInit
            /\ mgr_refs' = IF DeviceManagerCtor(initOk) = NoExc THEN 1 ELSE 0
            /\ pa_init_count' =
                  IF initOk THEN pa_init_count + 1 ELSE pa_init_count
            /\ op' = [NoOp EXCEPT !.name = "load_shared_instance",
                            !.pre_init = pa_init_count,
                            !.calls = <<"Pa_Initialize">>,
                            !.oks = <<initOk>>,
                            !.raised = DeviceManagerCtor(initOk)]
    /\ ctl_pc' = "return"
    /\ UNCHANGED <<objVars, m_is_running, slotVars, lockVars, pa_stream,
                   rtVars, ghostVars>>
    /\ UNCHANGED otherVars

\* A std::shared_ptr<DeviceManager> goes out of scope; the last one runs
\* DeviceManager::~DeviceManager, which calls Pa_Terminate.
release_shared_instance ==
    /\ ctl_pc = "idle"
    /\ mgr_refs > 0
    /\ mgr_refs' = mgr_refs - 1
    /\ IF mgr_refs = 1
       THEN /\ TerminateReturns(pa_init_count, pa_stream)
            /\ pa_init_count' = CountAfterTerminate(pa_init_count)
            /\ pa_stream' = StreamAfterTerminate(pa_init_count, pa_stream)
            /\ op' = [NoOp EXCEPT !.name = "release_shared_instance",
                            !.calls = <<"Pa_Terminate">>, !.oks = <<TRUE>>]
       ELSE /\ op' = [NoOp EXCEPT !.name = "release_shared_instance"]
            /\ UNCHANGED <<pa_init_count, pa_stream>>
    /\ ctl_pc' = "return"
    /\ UNCHANGED <<objVars, m_is_running, slotVars, lockVars, rtVars,
                   ghostVars>>
    /\ UNCHANGED otherVars

(***************************************************************************)
(* emit_audio_callback / emit_error_callback and the trampolines           *)
(* xap_pa_record_callback / xap_pa_play_callback.                          *)
(***************************************************************************)
\* The exception types that derive from std::exception.
StdExceptionTypes ==
    {"std_exception", "system_error", "bad_function_call", "bad_alloc",
     "Exception", "BufferException"}

\* What a closure with the given outcome throws.
ClosureThrows(outcome) ==
    IF outcome = "Exception" THEN XapExc("ERROR_PARAMETER")
    ELSE Thrown(outcome)

\* The catch clauses of emit_audio_callback and emit_error_callback:
\* catch (std::system_error &) first, then catch (std::exception &).
EmitCatch(exc) ==
    IF exc.type = "system_error" THEN XapExc("ERROR_SYSTEMCALL")
    ELSE IF exc.type \in StdExceptionTypes THEN XapExc("ERROR_CALLBACK")
    ELSE exc

\* Invoking an empty std::function throws std::bad_function_call.
InvokeEmpty(slot) ==
    IF slot = "Empty" THEN Thrown("bad_function_call") ELSE NoExc

Unhandled == [handled |-> FALSE, arg |-> "none", guarded |-> FALSE]
Handler(code, guarded) ==
    [handled |-> TRUE, arg |-> code, guarded |-> guarded]

\* The catch clauses of xap_pa_record_callback: the handler entered for an
\* exception leaving the try block, the code it passes to
\* emit_error_callback, and whether that call is inside a try block.
RecordCatch(exc) ==
    IF exc.type = "BufferException" THEN Handler("ERROR_ALLOC", FALSE)
    ELSE IF exc.type = "Exception" THEN Handler(exc.code, TRUE)
    ELSE IF exc.type \in StdExceptionTypes
    THEN Handler("ERROR_UNEXPECTED", TRUE)
    ELSE Unhandled

PlayCatchNoBuffer(exc) ==
    IF exc.type = "Exception" THEN Handler(exc.code, TRUE) ELSE Unhandled

\* The catch clauses of xap_pa_play_callback.
PlayCatch(exc) ==
    IF exc.type = "BufferException" THEN Handler("ERROR_ALLOC", TRUE)
    ELSE IF exc.type = "Exception" THEN Handler(exc.code, TRUE)
    ELSE Unhandled

TrampolineCatch(k, exc) ==
    IF k = "Recorder" THEN RecordCatch(exc) ELSE PlayCatch(exc)

\* The inner catch (xap::audioio::Exception &) of a handler: what still
\* propagates out of the trampoline.
HandlerCatch(guarded, exc) ==
    IF guarded /\ exc.type = "Exception" THEN NoExc ELSE exc

\* An exception leaves the trampoline's try block (error_slot notes what
\* the error slot holds at that moment).
RtAfterThrow(c, exc) ==
    LET h == TrampolineCatch(c.kind, exc)
    IN IF h.handled
       THEN /\ rt_pc' = "error_lock"
            /\ cycle' = [c EXCEPT !.error_arg = h.arg, !.guarded = h.guarded,
                                  !.error_slot = m_error_callback]
       ELSE /\ rt_pc' = "return"
            /\ cycle' = [c EXCEPT !.result = "escaped",
                                  !.error_slot = m_error_callback]

\* emit_error_callback has ended, normally or with exc.
RtAfterHandler(c, exc) ==
    /\ rt_pc' = "return"
    /\ cycle' = [c EXCEPT !.error_raised = exc,
                          !.result = IF HandlerCatch(c.guarded, exc) = NoExc
                                     THEN "paContinue" ELSE "escaped"]

\* The backend invokes the trampoline; the cycle's buffer is built.
CycleBegin(bufferOk) ==
    /\ rt_pc = "idle"
    /\ kind \in Kinds
    /\ pa_stream = "active"
    /\ LET c == [NoCycle EXCEPT !.kind = kind, !.buffer_ok = bufferOk]
       IN IF bufferOk
          THEN /\ rt_pc' = "audio_lock"
               /\ cycle' = c
          ELSE RtAfterThrow(c, Thrown("BufferException"))
    /\ UNCHANGED <<objVars, m_is_running, slotVars, lockVars, pa_init_count,
                   pa_stream, mgr_refs, ctl_pc, op, ghostVars>>
    /\ UNCHANGED otherVars

\* emit_audio_callback: the lock_guard, then the call of m_audio_callback.
EmitAudioEnter(lockOk) ==
    /\ rt_pc = "audio_lock"
    /\ IF ~lockOk
       THEN /\ RtAfterThrow(
                 [cycle EXCEPT !.audio_cause = "lock_failure",
                               !.audio_raised = EmitCatch(Thrown("system_error"))],
                 EmitCatch(Thrown("system_error")))
            /\ UNCHANGED m_audio_callback_lock
       ELSE /\ CanLock(AudioSlotLock)
            /\ IF InvokeEmpty(m_audio_callback) # NoExc
               THEN /\ RtAfterThrow(
                         [cycle EXCEPT
                            !.audio_cause = "empty_slot",
                            !.audio_raised =
                                EmitCatch(InvokeEmpty(m_audio_callback))],
                         EmitCatch(InvokeEmpty(m_audio_callback)))
                    /\ UNCHANGED m_audio_callback_lock
               ELSE /\ m_audio_callback_lock' = "rt"
                    /\ rt_pc' = "in_audio"
                    /\ cycle' = [cycle EXCEPT !.audio_cause = "closure",
                                             !.audio_calls = @ + 1,
                                             !.invoked = m_audio_callback]
    /\ UNCHANGED <<objVars, m_is_running, slotVars, m_error_callback_lock,
                   pa_init_count, pa_stream, mgr_refs, ctl_pc, op, ghostVars>>
    /\ UNCHANGED otherVars

\* The lock_guard's destructor: when control leaves the try block of an
\* emit function, normally or by an exception, the mutex is unlocked, before
\* any handler runs.
LockGuardKeeps(lock) == lock
LockGuardUnlock(lock) == "free"

\* The audio closure ends; the lock_guard releases the lock; the player's
\* trampoline copies the buffer to the output region.
AudioReturn(outcome) ==
    /\ rt_pc = "in_audio"
    /\ m_audio_callback_lock' = LockGuardUnlock(m_audio_callback_lock)
    /\ LET exc == EmitCatch(ClosureThrows(outcome))
           c == [cycle EXCEPT !.audio_outcome = outcome, !.audio_raised = exc,
                              !.invoked = "Empty"]
       IN IF exc = NoExc
          THEN /\ rt_pc' = "return"
               /\ cycle' = [c EXCEPT !.copied = (c.kind = "Player"),
                                     !.result = "paContinue"]
          ELSE RtAfterThrow(c, exc)
    /\ UNCHANGED <<objVars, m_is_running, slotVars, m_error_callback_lock,
                   pa_init_count, pa_stream, mgr_refs, ctl_pc, op, ghostVars>>
    /\ UNCHANGED otherVars

\* emit_error_callback: the lock_guard, then the call of m_error_callback.
EmitErrorEnter(lockOk) ==
    /\ rt_pc = "error_lock"
    /\ IF ~lockOk
       THEN /\ RtAfterHandler([cycle EXCEPT !.error_cause = "lock_failure"],
                              EmitCatch(Thrown("system_error")))
            /\ UNCHANGED m_error_callback_lock
       ELSE /\ CanLock(ErrorSlotLock)
            /\ IF InvokeEmpty(m_error_callback) # NoExc
               THEN /\ RtAfterHandler(
                         [cycle EXCEPT !.error_cause = "empty_slot"],
                         EmitCatch(InvokeEmpty(m_error_callback)))
                    /\ UNCHANGED m_error_callback_lock
               ELSE /\ m_error_callback_lock' = "rt"
                    /\ rt_pc' = "in_error"
                    /\ cycle' = [cycle EXCEPT !.error_cause = "closure",
                                             !.error_calls = @ + 1,
                                             !.error_invoked = m_error_callback]
    /\ UNCHANGED <<objVars, m_is_running, slotVars, m_audio_callback_lock,
                   pa_init_count, pa_stream, mgr_refs, ctl_pc, op, ghostVars>>
    /\ UNCHANGED otherVars

\* The error closure ends; the lock_guard releases the lock.
ErrorReturn(outcome) ==
    /\ rt_pc = "in_error"
    /\ m_error_callback_lock' = LockGuardUnlock(m_error_callback_lock)
    /\ RtAfterHandler([cycle EXCEPT !.error_outcome = outcome,
                                    !.error_invoked = "Empty"],
                      EmitCatch(ClosureThrows(outcome)))
    /\ UNCHANGED <<objVars, m_is_running, slotVars, m_audio_callback_lock,
                   pa_init_count, pa_stream, mgr_refs, ctl_pc, op, ghostVars>>
    /\ UNCHANGED otherVars

\* The trampoline's frame is left: control is back in the backend.
CycleReturn ==
    /\ rt_pc = "return"
    /\ rt_pc' = "idle"
    /\ cycle' = NoCycle
    /\ UNCHANGED <<objVars, m_is_running, slotVars, lockVars, pa_init_count,
                   pa_stream, mgr_refs, ctl_pc, op, ghostVars>>
    /\ UNCHANGED otherVars

\* The control thread's call is over: the caller has its result.
Return ==
    /\ ctl_pc = "return"
    /\ ctl_pc' = "idle"
    /\ op' = NoOp
    /\ UNCHANGED <<objVars, m_is_running, slotVars, lockVars, pa_init_count,
                   pa_stream, mgr_refs, rtVars, ghostVars>>
    /\ UNCHANGED otherVars

Next ==
    \/ \E k \in Kinds, e \in Entries, a, i, f, o \in BOOLEAN :
          Construct(k, e, a, i, f, o)
    \/ StartCheck
    \/ \E ok \in BOOLEAN : StartPa(ok)
    \/ StartSet
    \/ \E forcibly \in BOOLEAN : StopCheck(forcibly)
    \/ \E ok \in BOOLEAN : StopPa(ok)
    \/ StopSet
    \/ \E cb \in Closures : SetAudioCall(cb)
    \/ \E ok \in BOOLEAN : SetAudioLock(ok)
    \/ SetAudioAssign
    \/ SetAudioUnlock
    \/ \E cb \in ErrorClosures : SetErrorCall(cb)
    \/ \E ok \in BOOLEAN : SetErrorLock(ok)
    \/ SetErrorAssign
    \/ SetErrorUnlock
    \/ DtorBegin
    \/ \E ok \in BOOLEAN : DtorStop(ok)
    \/ \E ok \in BOOLEAN : DtorClose(ok)
    \/ DtorTerminate
    \/ \E ok \in BOOLEAN : load_shared_instance(ok)
    \/ release_shared_instance
    \/ \E ok \in BOOLEAN : CycleBegin(ok)
    \/ \E ok \in BOOLEAN : EmitAudioEnter(ok)
    \/ \E outcome \in ClosureOutcomes : AudioReturn(outcome)
    \/ \E ok \in BOOLEAN : EmitErrorEnter(ok)
    \/ \E outcome \in ClosureOutcomes : ErrorReturn(outcome)
    \/ CycleReturn
    \/ Return

Spec == Init /\ [][Next]_vars

\* Spec with the scheduling the claims about termination rely on: a user
\* closure that has been invoked returns, a thread inside a set call goes
\* on, and a thread that waits for a slot's mutex gets it when the mutex
\* is free again and again (the real-time thread holds it only while a
\* closure runs).
LiveSpec ==
    /\ Spec
    /\ WF_vars(\E outcome \in ClosureOutcomes : AudioReturn(outcome))
    /\ WF_vars(\E outcome \in ClosureOutcomes : ErrorReturn(outcome))
    /\ SF_vars(SetAudioLock(TRUE))
    /\ SF_vars(SetErrorLock(TRUE))
    /\ WF_vars(SetAudioAssign)
    /\ WF_vars(SetAudioUnlock)
    /\ WF_vars(SetErrorAssign)
    /\ WF_vars(SetErrorUnlock)

(***************************************************************************)
(* set_audio_callback called from inside the audio closure of the same     *)
(* stream, and set_error_callback from inside its error closure: the       *)
(* real-time thread, which holds the slot's mutex in emit_*_callback,      *)
(* locks it again in the set call.                                         *)
(***************************************************************************)
\* std::mutex::lock called by the thread that owns the mutex is undefined:
\* the thread blocks forever, or the implementation detects the deadlock
\* and throws std::system_error (resource_deadlock_would_occur).
RelockRecursive == {"acquired"}
RelockOutcomes == {"blocks", "system_error"}

\* What the nested set call leaves in the cycle's record and where the
\* real-time thread is then: waiting in lock(), or back in the closure
\* with ERROR_SYSTEMCALL thrown to it (the catch (std::system_error &) of
\* the set call), or back in the closure with the slot assigned.
ReentrantSetAudio(callback, outcome) ==
    /\ rt_pc = "in_audio"
    /\ cycle.nested = "none"
    /\ m_audio_callback_lock = "rt"
    /\ rt_pc' = IF outcome = "blocks" THEN "nested_lock" ELSE rt_pc
    /\ cycle' = [cycle EXCEPT
                   !.nested = IF outcome = "blocks" THEN "waiting"
                              ELSE IF outcome = "system_error"
                              THEN "ERROR_SYSTEMCALL"
                              ELSE "returned"]
    /\ m_audio_callback' =
          IF outcome = "acquired"
          THEN SlotAfterSet(m_audio_callback, callback)
          ELSE m_audio_callback
    /\ UNCHANGED <<objVars, m_is_running, m_error_callback, lockVars,
                   pa_init_count, pa_stream, mgr_refs, ctl_pc, op, ghostVars>>
    /\ UNCHANGED otherVars

ReentrantSetError(callback, outcome) ==
    /\ rt_pc = "in_error"
    /\ cycle.nested = "none"
    /\ m_error_callback_lock = "rt"
    /\ rt_pc' = IF outcome = "blocks" THEN "nested_error_lock" ELSE rt_pc
    /\ cycle' = [cycle EXCEPT
                   !.nested = IF outcome = "blocks" THEN "waiting"
                              ELSE IF outcome = "system_error"
                              THEN "ERROR_SYSTEMCALL"
                              ELSE "returned"]
    /\ m_error_callback' =
          IF outcome = "acquired"
          THEN SlotAfterSet(m_error_callback, callback)
          ELSE m_error_callback
    /\ UNCHANGED <<objVars, m_is_running, m_audio_callback, lockVars,
                   pa_init_count, pa_stream, mgr_refs, ctl_pc, op, ghostVars>>
    /\ UNCHANGED otherVars

\* Spec with closures that call the set function of their own slot.
ReentrantSpec ==
    /\ Init
    /\ [][\/ Next
          \/ \E cb \in Closures, outcome \in RelockOutcomes :
                ReentrantSetAudio(cb, outcome)
          \/ \E cb \in ErrorClosures, outcome \in RelockOutcomes :
                ReentrantSetError(cb, outcome)]_vars

(***************************************************************************)
(* RecorderFactory::free_instance / PlayerFactory::free_instance, and the  *)
(* ways of disposing of a stream object.                                   *)
(***************************************************************************)
\* The argument of free_instance: a null IRecorder ** / IPlayer **, or the
\* address of the caller's pointer variable.
FreeArgs == {"nullptr", "variable"}

\* The exception free_instance throws, given its argument and the value of
\* the variable the argument points to.
FreeThrows(arg, pointee) ==
    IF arg = "nullptr" THEN XapExc("ERROR_PARAMETER")
    ELSE IF pointee = "nullptr" THEN XapExc("ERROR_INVALIDOPERATION")
    ELSE NoExc

\* *instance = nullptr.
PointerAfterFreeKeeps(pointee) == pointee
PointerAfterFree(pointee) == "nullptr"

\* free(*instance): the object's memory goes back to the allocator. No
\* destructor runs, so no backend call is made.
FreeCalls == <<"free">>

\* The caller's pointer variable once a call has returned: new_instance
\* that did not throw gives the address of the new object.
PointerAfterReturn(call, pointee) ==
    IF /\ call.name = "construct"
       /\ call.entry = "new_instance"
       /\ call.raised = NoExc
    THEN "object"
    ELSE pointee

free_instance(arg) ==
    /\ ctl_pc = "idle"
    /\ LET exc == FreeThrows(arg, instance)
           call == [NoOp EXCEPT !.name = "free_instance", !.kind = kind,
                                !.pre_running = m_is_running, !.arg = arg,
                                !.old = instance, !.raised = exc]
       IN IF exc = NoExc
          THEN /\ freed' = freed + 1
               /\ instance' = PointerAfterFree(instance)
               /\ op' = [call EXCEPT !.calls = FreeCalls, !.oks = <<TRUE>>]
          ELSE /\ op' = call
               /\ UNCHANGED <<instance, freed>>
    /\ ctl_pc' = "return"
    /\ UNCHANGED <<objVars, m_is_running, slotVars, lockVars, pa_init_count,
                   pa_stream, mgr_refs, rtVars, ghostVars>>
    /\ UNCHANGED <<deviceVars, pa_table, enumVars, playVars>>

\* The control thread's call is over; the caller of new_instance stores
\* the pointer it got.
FreeReturn ==
    /\ ctl_pc = "return"
    /\ ctl_pc' = "idle"
    /\ instance' = PointerAfterReturn(op, instance)
    /\ op' = NoOp
    /\ UNCHANGED <<objVars, m_is_running, slotVars, lockVars, pa_init_count,
                   pa_stream, mgr_refs, rtVars, ghostVars, freed>>
    /\ UNCHANGED <<deviceVars, pa_table, enumVars, playVars>>

\* The object's memory has been given back to the allocator.
Released == freed > 0

\* The object is owned by a std::unique_ptr / std::shared_ptr.
SmartOwned == kind \in Kinds /\ instance = "nullptr" /\ ~Released

\* What a trampoline invoked with a pointer to released memory can do: the
\* read of the object's members is undefined.
DanglingResults == {"paContinue", "escaped", "crashed"}

\* The backend invokes the trampoline of a stream whose object has been
\* released.
DanglingCycle(result) ==
    /\ rt_pc = "idle"
    /\ Released
    /\ pa_stream = "active"
    /\ rt_pc' = "return"
    /\ cycle' = [NoCycle EXCEPT !.kind = kind, !.result = result]
    /\ UNCHANGED <<objVars, m_is_running, slotVars, lockVars, pa_init_count,
                   pa_stream, mgr_refs, ctl_pc, op, ghostVars>>
    /\ UNCHANGED otherVars

FreeNext ==
    \/ \E k \in Kinds, e \in Entries, a, i, f, o \in BOOLEAN :
          Construct(k, e, a, i, f, o)
    \/ ~Released /\ StartCheck
    \/ \E ok \in BOOLEAN : StartPa(ok)
    \/ StartSet
    \/ \E forcibly \in BOOLEAN : ~Released /\ StopCheck(forcibly)
    \/ \E ok \in BOOLEAN : StopPa(ok)
    \/ StopSet
    \/ SmartOwned /\ DtorBegin
    \/ \E ok \in BOOLEAN : DtorStop(ok)
    \/ \E ok \in BOOLEAN : DtorClose(ok)
    \/ DtorTerminate
    \/ \E arg \in FreeArgs : free_instance(arg)
    \/ \E ok \in BOOLEAN : ~Released /\ CycleBegin(ok)
    \/ \E ok \in BOOLEAN : EmitAudioEnter(ok)
    \/ \E ok \in BOOLEAN : EmitErrorEnter(ok)
    \/ \E result \in DanglingResults : DanglingCycle(result)
    \/ CycleReturn
    \/ FreeReturn

FreeSpec == Init /\ [][FreeNext]_vars

(***************************************************************************)
(* Device queries of a DeviceManager (src/src/device.cc), as functions of  *)
(* the backend's device table.                                             *)
(***************************************************************************)
\* A PaDeviceInfo. The name and the four latencies are told apart by the
\* device's index and the field they come from.
DeviceInfo(i, inputs, outputs) ==
    [null |-> FALSE,
     name |-> <<i, "name">>,
     maxInputChannels |-> inputs,
     maxOutputChannels |-> outputs,
     defaultLowInputLatency |-> <<i, "defaultLowInputLatency">>,
     defaultHighInputLatency |-> <<i, "defaultHighInputLatency">>,
     defaultLowOutputLatency |-> <<i, "defaultLowOutputLatency">>,
     defaultHighOutputLatency |-> <<i, "defaultHighOutputLatency">>]

\* A null PaDeviceInfo pointer.
NullInfo == [DeviceInfo(paNoDevice, 0, 0) EXCEPT !.null = TRUE]

\* Pa_GetDeviceInfo(i): null for an index outside the table.
Pa_GetDeviceInfo(table, i) ==
    IF i >= 0 /\ i < Len(table.info) THEN table.info[i + 1] ELSE NullInfo

\* The test of the enumeration loop: whether device i is skipped.
SkipsInputSwapped(info) ==
    info = NullInfo \/ info.maxOutputChannels = 0
SkipsInput(info) == info = NullInfo \/ info.maxInputChannels = 0

SkipsOutput(info) == info = NullInfo \/ info.maxOutputChannels = 0

\* The InputDevice the loop of load_all_input_devices builds for index i.
InputEntryFirstIsDefault(i, info, default_device) ==
    [is_default |-> (i = 0),
     device_id |-> i,
     name |-> info.name,
     default_low_latency |-> info.defaultLowOutputLatency,
     defalut_high_latency |-> info.defaultHighOutputLatency]
InputEntry(i, info, default_device) ==
    [is_default |-> (i = default_device),
     device_id |-> i,
     name |-> info.name,
     default_low_latency |-> info.defaultLowOutputLatency,
     defalut_high_latency |-> info.defaultHighOutputLatency]

\* The OutputDevice the loop of load_all_output_devices builds for index i.
OutputEntry(i, info, default_device) ==
    [is_default |-> (i = default_device),
     device_id |-> i,
     name |-> info.name,
     default_low_latency |-> info.defaultLowOutputLatency,
     defalut_high_latency |-> info.defaultHighOutputLatency]

\* for (int i = 0; i < devices_count; ++i) of load_all_input_devices, from
\* index i on.
RECURSIVE InputLoop(_, _, _, _)
InputLoop(table, i, devices_count, default_device) ==
    IF i >= devices_count THEN <<>>
    ELSE LET info == Pa_GetDeviceInfo(table, i)
             rest == InputLoop(table, i + 1, devices_count, default_device)
         IN IF SkipsInput(info) THEN rest
            ELSE <<InputEntry(i, info, default_device)>> \o rest

RECURSIVE OutputLoop(_, _, _, _)
OutputLoop(table, i, devices_count, default_device) ==
    IF i >= devices_count THEN <<>>
    ELSE LET info == Pa_GetDeviceInfo(table, i)
             rest == OutputLoop(table, i + 1, devices_count, default_device)
         IN IF SkipsOutput(info) THEN rest
            ELSE <<OutputEntry(i, info, default_device)>> \o rest

\* The outcome of a device query: the exception it throws, or its value.
Raises(code) == [raised |-> XapExc(code), result |-> <<>>]
Gives(value) == [raised |-> NoExc, result |-> value]

load_all_input_devices_unchecked(table) ==
    Gives(InputLoop(table, 0, table.count, table.default_input))
load_all_input_devices(table) ==
    IF table.count < 0 THEN Raises("ERROR_PORTAUDIOCALL")
    ELSE IF table.default_input < paNoDevice
    THEN Raises("ERROR_PORTAUDIOCALL")
    ELSE Gives(InputLoop(table, 0, table.count, table.default_input))

load_all_output_devices(table) ==
    IF table.count < 0 THEN Raises("ERROR_PORTAUDIOCALL")
    ELSE IF table.default_output < paNoDevice
    THEN Raises("ERROR_PORTAUDIOCALL")
    ELSE Gives(OutputLoop(table, 0, table.count, table.default_output))

\* if (default_device == paNoDevice) throw ... ERROR_NODEVICE.
NoDefaultNever(default_device) == FALSE
NoDefault(default_device) == default_device = paNoDevice

load_default_input_device(table) ==
    LET default_device == table.default_input
        info == Pa_GetDeviceInfo(table, default_device)
    IN IF NoDefault(default_device) THEN Raises("ERROR_NODEVICE")
       ELSE IF info = NullInfo THEN Raises("ERROR_PORTAUDIOCALL")
       ELSE Gives(<<[is_default |-> TRUE,
                     device_id |-> default_device,
                     name |-> info.name,
                     default_low_latency |-> info.defaultLowInputLatency,
                     defalut_high_latency |-> info.defaultHighInputLatency]>>)

load_default_output_device(table) ==
    LET default_device == table.default_output
        info == Pa_GetDeviceInfo(table, default_device)
    IN IF NoDefault(default_device) THEN Raises("ERROR_NODEVICE")
       ELSE IF info = NullInfo THEN Raises("ERROR_PORTAUDIOCALL")
       ELSE Gives(<<[is_default |-> TRUE,
                     device_id |-> default_device,
                     name |-> info.name,
                     default_low_latency |-> info.defaultLowOutputLatency,
                     defalut_high_latency |-> info.defaultHighOutputLatency]>>)

\* The device queries, by name.
Queries ==
    {"load_all_input_devices", "load_all_output_devices",
     "load_default_input_device", "load_default_output_device"}

QueryOutcome(name, table) ==
    IF name = "load_all_input_devices" THEN load_all_input_devices(table)
    ELSE IF name = "load_all_output_devices"
    THEN load_all_output_devices(table)
    ELSE IF name = "load_default_input_device"
    THEN load_default_input_device(table)
    ELSE load_default_output_device(table)

(***************************************************************************)
(* The device tables of the backend.                                       *)
(***************************************************************************)
\* The channel capabilities a device reports.
ChannelCounts == {0, 2}
\* An error code of the backend (paNotInitialized and the like): a negative
\* number below paNoDevice.
paError == -2

\* The table entries of device i.
InfosOf(i) ==
    {NullInfo} \cup
    {DeviceInfo(i, inputs, outputs) : inputs, outputs \in ChannelCounts}

RECURSIVE InfoSeqs(_)
\* The sequences of n table entries.
InfoSeqs(n) ==
    IF n = 0 THEN {<<>>}
    ELSE {Append(s, e) : s \in InfoSeqs(n - 1), e \in InfosOf(n - 1)}

\* A table with n devices; the default indices name a device of the table,
\* or are paNoDevice, or are an error code.
TablesOf(n) ==
    {[count |-> n, default_input |-> di, default_output |-> do, info |-> s] :
        di \in {paError, paNoDevice} \cup (0 .. n - 1),
        do \in {paError, paNoDevice} \cup (0 .. n - 1),
        s \in InfoSeqs(n)}

\* A backend whose device count query fails.
FailedTable == [NoTable EXCEPT !.count = paError]

Tables == {FailedTable} \cup UNION {TablesOf(n) : n \in 0 .. MaxDevices}

(***************************************************************************)
(* Device queries made one at a time on one DeviceManager.                 *)
(***************************************************************************)
\* A query runs to its end against the backend's table.
Query(name) ==
    /\ enum_call.name = "none"
    /\ enum_call' = [name |-> name,
                     raised |-> QueryOutcome(name, pa_table).raised,
                     result |-> QueryOutcome(name, pa_table).result]
    /\ UNCHANGED <<streamVars, playVars, freeVars>>
    /\ UNCHANGED <<pa_init_count, deviceVars, pa_table>>

\* The caller has the query's result.
QueryReturn ==
    /\ enum_call.name # "none"
    /\ enum_call' = NoQuery
    /\ UNCHANGED <<streamVars, playVars, freeVars>>
    /\ UNCHANGED <<pa_init_count, deviceVars, pa_table>>

EnumSpecInit ==
    /\ StreamInit
    /\ DeviceInit
    /\ pa_table \in Tables
    /\ EnumInit
    /\ PlayInit
    /\ FreeInit

EnumNext ==
    \/ \E name \in Queries : Query(name)
    \/ QueryReturn

EnumSpec == EnumSpecInit /\ [][EnumNext]_vars

(***************************************************************************)
(* The DeviceManager singleton used by several threads                     *)
(* (src/src/device.cc): load_shared_instance, the release of a             *)
(* std::shared_ptr<DeviceManager>, ~DeviceManager and the device queries.  *)
(***************************************************************************)
\* The device tables of a machine with audio hardware, as the unit test
\* expects it: one duplex device, or a capture and a playback device.
DuplexTable ==
    [count |-> 1, default_input |-> 0, default_output |-> 0,
     info |-> <<DeviceInfo(0, 2, 2)>>]
SplitTable ==
    [count |-> 2, default_input |-> 0, default_output |-> 1,
     info |-> <<DeviceInfo(0, 2, 0), DeviceInfo(1, 0, 2)>>]
TestTables == {DuplexTable, SplitTable}

\* std::weak_ptr::lock(): it yields a strong reference exactly when the
\* object's strong count is not 0.
WeakLockNever(strong) == FALSE
WeakLock(strong) == strong > 0

\* The manager some strong reference refers to (0: none).
LiveManager ==
    IF \E m \in Managers : managers[m].strong > 0
    THEN CHOOSE m \in Managers : managers[m].strong > 0
    ELSE 0

\* The backend's functions are not synchronized: a call made by thread t
\* while another thread is inside the backend's teardown races with it.
Overlaps(t) == pa_teardown \ {t} # {}

\* The call of thread t ends: what it leaves in the thread's record.
Ended(t, rec) == thr' = [thr EXCEPT ![t] = [rec EXCEPT !.pc = "return"]]

\* load_shared_instance: the lock_guard on m_instance_lock; a failure of
\* std::mutex::lock is rethrown as ERROR_SYSTEMCALL.
LsiLock(t, lockOk) ==
    /\ thr[t].pc = "idle"
    /\ thr[t].mgr = 0
    /\ LET rec == [NoCall EXCEPT !.name = "load_shared_instance"]
       IN IF lockOk
          THEN /\ CanLock(m_instance_lock)
               /\ m_instance_lock' = t
               /\ thr' = [thr EXCEPT ![t] = [rec EXCEPT !.pc = "lsi_check"]]
          ELSE /\ Ended(t, [rec EXCEPT !.injected = TRUE,
                                       !.raised = XapExc("ERROR_SYSTEMCALL")])
               /\ UNCHANGED m_instance_lock
    /\ UNCHANGED <<streamVars, playVars, freeVars>>
    /\ UNCHANGED <<pa_init_count, m_instance, managers,
                   pa_teardown, pa_raced, pa_table, enumVars>>

\* if (auto mgr = m_instance.lock()) return mgr; else ...
LsiCheck(t) ==
    /\ thr[t].pc = "lsi_check"
    /\ IF m_instance # 0 /\ WeakLock(managers[m_instance].strong)
       THEN /\ managers' = [managers EXCEPT ![m_instance].strong = @ + 1]
            /\ m_instance_lock' = "free"
            /\ Ended(t, [thr[t] EXCEPT !.pre_live = LiveManager,
                                       !.mgr = m_instance])
       ELSE /\ thr' = [thr EXCEPT ![t].pc = "lsi_new",
                                  ![t].pre_live = LiveManager]
            /\ UNCHANGED <<managers, m_instance_lock>>
    /\ UNCHANGED <<streamVars, playVars, freeVars>>
    /\ UNCHANGED <<pa_init_count, m_instance, pa_teardown,
                   pa_raced, pa_table, enumVars>>

\* new DeviceManager() and the shared_ptr that owns it: the constructor
\* calls Pa_Initialize; std::bad_alloc is rethrown as ERROR_ALLOC.
LsiNew(t, allocOk, initOk) ==
    /\ thr[t].pc = "lsi_new"
    /\ IF ~allocOk
       THEN /\ Ended(t, [thr[t] EXCEPT !.injected = TRUE,
                                       !.raised = XapExc("ERROR_ALLOC")])
            /\ m_instance_lock' = "free"
            /\ UNCHANGED <<managers, pa_init_count, pa_raced>>
       ELSE /\ pa_raced' = (pa_raced \/ Overlaps(t))
            /\ IF DeviceManagerCtor(initOk) # NoExc
               THEN /\ Ended(t, [thr[t] EXCEPT
                                   !.injected = TRUE,
                                   !.calls = Append(@, "Pa_Initialize"),
                                   !.raced = Overlaps(t),
                                   !.raised = DeviceManagerCtor(initOk)])
                    /\ m_instance_lock' = "free"
                    /\ UNCHANGED <<managers, pa_init_count>>
               ELSE LET m == CHOOSE m \in Managers : managers[m].life = "none"
                    IN /\ managers' =
                             [managers EXCEPT
                                ![m] = [NoManager EXCEPT !.strong = 1,
                                                         !.life = "alive"]]
                       /\ pa_init_count' = pa_init_count + 1
                       /\ thr' = [thr EXCEPT
                                    ![t].pc = "lsi_assign",
                                    ![t].made = m,
                                    ![t].raced = Overlaps(t),
                                    ![t].calls = Append(@, "Pa_Initialize")]
                       /\ UNCHANGED m_instance_lock
    /\ UNCHANGED <<streamVars, playVars, freeVars>>
    /\ UNCHANGED <<m_instance, pa_teardown, pa_table, enumVars>>

\* m_instance = ptr; return ptr; (the lock_guard releases the lock).
LsiAssign(t) ==
    /\ thr[t].pc = "lsi_assign"
    /\ m_instance' = thr[t].made
    /\ m_instance_lock' = "free"
    /\ Ended(t, [thr[t] EXCEPT !.mgr = thr[t].made])
    /\ UNCHANGED <<streamVars, playVars, freeVars>>
    /\ UNCHANGED <<pa_init_count, managers, pa_teardown,
                   pa_raced, pa_table, enumVars>>

\* A thread's std::shared_ptr<DeviceManager> goes out of scope: the strong
\* count drops, and the thread that drops it to 0 runs ~DeviceManager.
ReleaseRef(t) ==
    /\ thr[t].pc = "idle"
    /\ thr[t].mgr # 0
    /\ LET m == thr[t].mgr
           rec == [NoCall EXCEPT !.name = "release"]
       IN IF managers[m].strong = 1
          THEN /\ managers' = [managers EXCEPT ![m].strong = 0,
                                               ![m].life = "dying"]
               /\ thr' = [thr EXCEPT ![t] = [rec EXCEPT !.pc = "dm_dtor",
                                                        !.destroyed = m]]
          ELSE /\ managers' = [managers EXCEPT ![m].strong = @ - 1]
               /\ Ended(t, rec)
    /\ UNCHANGED <<streamVars, playVars, freeVars>>
    /\ UNCHANGED <<pa_init_count, m_instance, m_instance_lock,
                   pa_teardown, pa_raced, pa_table, enumVars>>

\* ~DeviceManager: Pa_Terminate(). The call that takes the backend's count
\* to 0 tears the backend down, which is not instantaneous.
DmDtor(t) ==
    /\ thr[t].pc = "dm_dtor"
    /\ pa_raced' = (pa_raced \/ Overlaps(t))
    /\ IF pa_init_count <= 1
       THEN /\ pa_teardown' = pa_teardown \cup {t}
            /\ thr' = [thr EXCEPT ![t].pc = "dm_teardown",
                                  ![t].raced = Overlaps(t),
                                  ![t].calls = Append(@, "Pa_Terminate")]
            /\ UNCHANGED <<pa_init_count, managers>>
       ELSE /\ pa_init_count' = CountAfterTerminate(pa_init_count)
            /\ managers' = [managers EXCEPT ![thr[t].destroyed] = NoManager]
            /\ Ended(t, [thr[t] EXCEPT !.raced = Overlaps(t),
                                       !.calls = Append(@, "Pa_Terminate")])
            /\ UNCHANGED pa_teardown
    /\ UNCHANGED <<streamVars, playVars, freeVars>>
    /\ UNCHANGED <<m_instance, m_instance_lock, pa_table,
                   enumVars>>

\* The backend's teardown ends and Pa_Terminate returns.
DmTeardownEnd(t) ==
    /\ thr[t].pc = "dm_teardown"
    /\ pa_teardown' = pa_teardown \ {t}
    /\ pa_init_count' = CountAfterTerminate(pa_init_count)
    /\ managers' = [managers EXCEPT ![thr[t].destroyed] = NoManager]
    /\ Ended(t, thr[t])
    /\ UNCHANGED <<streamVars, playVars, freeVars>>
    /\ UNCHANGED <<m_instance, m_instance_lock, pa_raced,
                   pa_table, enumVars>>

\* The direction of a device query, and the lock that guards it.
DirectionOf(name) ==
    IF name \in {"load_all_input_devices", "load_default_input_device"}
    THEN "input" ELSE "output"
DeviceLockSame(direction) == "m_input_device_lock"
DeviceLock(direction) ==
    IF direction = "input" THEN "m_input_device_lock"
    ELSE "m_output_device_lock"

LockOwner(m, direction) ==
    IF DeviceLock(direction) = "m_input_device_lock"
    THEN managers[m].m_input_device_lock
    ELSE managers[m].m_output_device_lock

WithLockOwnerDrops(m, direction, owner) == managers
WithLockOwner(m, direction, owner) ==
    IF DeviceLock(direction) = "m_input_device_lock"
    THEN [managers EXCEPT ![m].m_input_device_lock = owner]
    ELSE [managers EXCEPT ![m].m_output_device_lock = owner]

\* A device query begins: the lock_guard on the direction's lock.
EnumLock(t, name, lockOk) ==
    /\ thr[t].pc = "idle"
    /\ thr[t].mgr # 0
    /\ LET m == thr[t].mgr
           rec == [NoCall EXCEPT !.mgr = m, !.name = name,
                                 !.direction = DirectionOf(name)]
       IN IF lockOk
          THEN /\ CanLock(LockOwner(m, DirectionOf(name)))
               /\ managers' = WithLockOwner(m, DirectionOf(name), t)
               /\ thr' = [thr EXCEPT ![t] = [rec EXCEPT !.pc = "enum_query"]]
          ELSE /\ Ended(t, [rec EXCEPT !.injected = TRUE,
                                       !.raised = XapExc("ERROR_SYSTEMCALL")])
               /\ UNCHANGED managers
    /\ UNCHANGED <<streamVars, playVars, freeVars>>
    /\ UNCHANGED <<pa_init_count, m_instance, m_instance_lock,
                   pa_teardown, pa_raced, pa_table, enumVars>>

\* What the backend queries of a device query can produce: the value the
\* table determines, or, once a call has raced with the backend's teardown,
\* anything (an error, an empty table, the right value).
BackendOutcomes(t, name) ==
    IF pa_raced \/ Overlaps(t)
    THEN {Raises("ERROR_PORTAUDIOCALL"), Gives(<<>>),
          QueryOutcome(name, pa_table)}
    ELSE {QueryOutcome(name, pa_table)}

\* The backend queries of a device query, and the building of its value
\* (std::bad_alloc is rethrown as ERROR_ALLOC).
EnumQuery(t, allocOk, outcome) ==
    /\ thr[t].pc = "enum_query"
    /\ outcome \in BackendOutcomes(t, thr[t].name)
    /\ pa_raced' = (pa_raced \/ Overlaps(t))
    /\ thr' = [thr EXCEPT
                 ![t].pc = "enum_unlock",
                 ![t].raced = (pa_raced \/ Overlaps(t)),
                 ![t].injected = ~allocOk,
                 ![t].raised = IF allocOk THEN outcome.raised
                               ELSE XapExc("ERROR_ALLOC"),
                 ![t].result = IF allocOk THEN outcome.result ELSE <<>>]
    /\ UNCHANGED <<streamVars, playVars, freeVars>>
    /\ UNCHANGED <<pa_init_count, m_instance, m_instance_lock,
                   managers, pa_teardown, pa_table, enumVars>>

\* The lock_guard releases the direction's lock and the query returns.
EnumUnlock(t) ==
    /\ thr[t].pc = "enum_unlock"
    /\ managers' = WithLockOwner(thr[t].mgr, thr[t].direction, "free")
    /\ Ended(t, thr[t])
    /\ UNCHANGED <<streamVars, playVars, freeVars>>
    /\ UNCHANGED <<pa_init_count, m_instance, m_instance_lock,
                   pa_teardown, pa_raced, pa_table, enumVars>>

\* The thread's call is over: the caller has its result.
ThreadReturn(t) ==
    /\ thr[t].pc = "return"
    /\ thr' = [thr EXCEPT ![t] = [NoCall EXCEPT !.mgr = thr[t].mgr]]
    /\ UNCHANGED <<streamVars, playVars, freeVars>>
    /\ UNCHANGED <<pa_init_count, m_instance, m_instance_lock,
                   managers, pa_teardown, pa_raced, pa_table, enumVars>>

DeviceSpecInit ==
    /\ StreamInit
    /\ DeviceInit
    /\ pa_table \in TestTables
    /\ EnumInit
    /\ PlayInit
    /\ FreeInit

DeviceNext ==
    \/ \E t \in Threads, ok \in BOOLEAN : LsiLock(t, ok)
    \/ \E t \in Threads : LsiCheck(t)
    \/ \E t \in Threads, a, i \in BOOLEAN : LsiNew(t, a, i)
    \/ \E t \in Threads : LsiAssign(t)
    \/ \E t \in Threads : ReleaseRef(t)
    \/ \E t \in Threads : DmDtor(t)
    \/ \E t \in Threads : DmTeardownEnd(t)
    \/ \E t \in Threads, name \in Queries, ok \in BOOLEAN :
          EnumLock(t, name, ok)
    \/ \E t \in Threads, ok \in BOOLEAN :
          \E outcome \in BackendOutcomes(t, thr[t].name) :
             EnumQuery(t, ok, outcome)
    \/ \E t \in Threads : EnumUnlock(t)
    \/ \E t \in Threads : ThreadReturn(t)

DeviceSpec == DeviceSpecInit /\ [][DeviceNext]_vars

(***************************************************************************)
(* start() and stop() called by several threads on one stream object       *)
(* (Recorder::start / stop, Player::start / stop): the functions take no   *)
(* lock, so their statements interleave.                                   *)
(***************************************************************************)
\* What the steps of a client thread inside start() / stop() leave alone.
raceFrame ==
    <<objVars, slotVars, lockVars, pa_init_count, mgr_refs, ctl_pc, op,
      rtVars, ghostVars, m_instance, m_instance_lock, managers, pa_teardown,
      pa_raced, pa_table, enumVars, playVars, freeVars>>

\* start(): the test of the running flag, made by thread t.
StartCheckBy(t) ==
    /\ thr[t].pc = "idle"
    /\ kind \in Kinds
    /\ ctl_pc = "idle"
    /\ LET rec == [NoCall EXCEPT !.name = "start"]
       IN IF StartCheckPasses(m_is_running)
          THEN thr' = [thr EXCEPT ![t] = [rec EXCEPT !.pc = "start_pa"]]
          ELSE Ended(t, [rec EXCEPT
                           !.raised = XapExc("ERROR_INVALIDOPERATION")])
    /\ UNCHANGED <<m_is_running, pa_stream>>
    /\ UNCHANGED raceFrame

\* start(): pacall_assert(Pa_StartStream(m_stream)), made by thread t.
StartPaBy(t, ok) ==
    /\ thr[t].pc = "start_pa"
    /\ pa_stream' = IF ok THEN "active" ELSE pa_stream
    /\ LET rec == [thr[t] EXCEPT !.calls = Append(@, "Pa_StartStream"),
                                 !.raised = pacall_assert(ok)]
       IN IF pacall_assert(ok) = NoExc
          THEN thr' = [thr EXCEPT ![t] = [rec EXCEPT !.pc = "start_set"]]
          ELSE Ended(t, rec)
    /\ UNCHANGED m_is_running
    /\ UNCHANGED raceFrame

\* start(): m_is_running = true, made by thread t.
StartSetBy(t) ==
    /\ thr[t].pc = "start_set"
    /\ m_is_running' = TRUE
    /\ Ended(t, thr[t])
    /\ UNCHANGED pa_stream
    /\ UNCHANGED raceFrame

\* stop(forcibly): the test of the running flag, made by thread t.
StopCheckBy(t) ==
    /\ thr[t].pc = "idle"
    /\ kind \in Kinds
    /\ ctl_pc = "idle"
    /\ LET rec == [NoCall EXCEPT !.name = "stop"]
       IN IF StopCheckPasses(m_is_running)
          THEN thr' = [thr EXCEPT ![t] = [rec EXCEPT !.pc = "stop_pa"]]
          ELSE Ended(t, [rec EXCEPT
                           !.raised = XapExc("ERROR_INVALIDOPERATION")])
    /\ UNCHANGED <<m_is_running, pa_stream>>
    /\ UNCHANGED raceFrame

\* stop(forcibly): pacall_assert(Pa_AbortStream(m_stream)) or
\* pacall_assert(Pa_StopStream(m_stream)), made by thread t.
StopPaBy(t, forcibly, ok) ==
    /\ thr[t].pc = "stop_pa"
    /\ BackendQuiescent
    /\ pa_stream' = IF ok THEN "stopped" ELSE pa_stream
    /\ LET rec == [thr[t] EXCEPT !.calls = Append(@, StopCall(forcibly)),
                                 !.raised = pacall_assert(ok)]
       IN IF StopClears(ok)
          THEN thr' = [thr EXCEPT ![t] = [rec EXCEPT !.pc = "stop_set"]]
          ELSE Ended(t, rec)
    /\ UNCHANGED m_is_running
    /\ UNCHANGED raceFrame

\* stop(forcibly): m_is_running = false, made by thread t.
StopSetBy(t) ==
    /\ thr[t].pc = "stop_set"
    /\ m_is_running' = FALSE
    /\ Ended(t, thr[t])
    /\ UNCHANGED pa_stream
    /\ UNCHANGED raceFrame

\* One thread makes the stream object; then the client threads call start()
\* and stop() on it, in any interleaving.
RaceNext ==
    \/ \E k \in Kinds, e \in Entries, a, i, f, o \in BOOLEAN :
          Construct(k, e, a, i, f, o)
    \/ Return
    \/ \E t \in Threads : StartCheckBy(t)
    \/ \E t \in Threads, ok \in BOOLEAN : StartPaBy(t, ok)
    \/ \E t \in Threads : StartSetBy(t)
    \/ \E t \in Threads : StopCheckBy(t)
    \/ \E t \in Threads, forcibly, ok \in BOOLEAN : StopPaBy(t, forcibly, ok)
    \/ \E t \in Threads : StopSetBy(t)
    \/ \E t \in Threads : ThreadReturn(t)

RaceSpec == Init /\ [][RaceNext]_vars

(***************************************************************************)
(* The data path of the trampolines (src/src/recorder.cc) and the          *)
(* capture-then-playback scenario of recorder_player.unittest.cc           *)
(* (src/unnamed/part_002).                                                 *)
(***************************************************************************)
\* Caps of the options and of the scenario's queue.
MaxChannels == 2
MaxFrames == 2
MaxQueue == 6
\* Cap of the cycles the backend runs on one stream.
MaxCycles == 4

\* paInt16: the bytes of one sample.
BytesPerSample == 2

\* n bytes of one kind.
Bytes(n, b) == [i \in 1 .. n |-> b]

\* The region the backend passes to a trampoline: frames of channel_count
\* interleaved 16-bit samples. A capture region holds captured samples; a
\* playback region holds what the backend left there.
RegionLength(frames, channel_count) == frames * channel_count * BytesPerSample
CaptureRegion(frames, channel_count) ==
    Bytes(RegionLength(frames, channel_count), "captured")
PlaybackRegion(frames, channel_count) ==
    Bytes(RegionLength(frames, channel_count), "stale")

\* The length of the buffer a trampoline builds for a cycle:
\* static_cast<size_t>(frames_per_buffer) * 2U.
DataLen(frames_per_buffer) == frames_per_buffer * 2

\* xap::core::buffer::Buffer(pointer, length): a copy of the first bytes
\* of the region.
BufferFrom(region, length) ==
    [i \in 1 .. length |-> IF i <= Len(region) THEN region[i] ELSE "beyond"]

\* xap::core::buffer::Buffer(datalen, false): a buffer the closure has not
\* written yet.
BlankBuffer(length) == Bytes(length, "blank")

\* memcpy(output_buffer, data.get_pointer(), datalen).
Memcpy(region, data, length) ==
    [i \in 1 .. Len(region) |-> IF i <= length THEN data[i] ELSE region[i]]

\* The scenario's playback closure: the number of bytes it pops from the
\* queue for a buffer of the given length.
PopLengthNothing(length, remaining) == 0
PopLength(length, remaining) ==
    IF remaining = 0 THEN 0
    ELSE IF length <= remaining THEN length
    ELSE remaining

\* The buffer after the scenario's playback closure copied the popped
\* bytes into it.
Filled(data, popped) ==
    [i \in 1 .. Len(data) |-> IF i <= popped THEN "queued" ELSE data[i]]

\* The error path of a cycle: what the trampoline's catch clauses do with
\* the exception that left the try block (both closures are registered and
\* the error closure returns).
ErrorPath(k, exc) ==
    LET h == TrampolineCatch(k, exc)
    IN [error_calls |-> IF h.handled THEN 1 ELSE 0,
        error_arg |-> h.arg,
        result |-> IF h.handled THEN "paContinue" ELSE "escaped"]

\* One cycle of xap_pa_record_callback while the scenario records: the
\* buffer is built from the input region and the audio closure pushes it
\* into the queue.
RecordCycle(bufferOk, outcome) ==
    /\ main_pc = "recording"
    /\ LET frames == options.frame_pre_buffer
           region == CaptureRegion(frames, options.channel_count)
           datalen == DataLen(frames)
           data == BufferFrom(region, datalen)
           exc == IF ~bufferOk THEN Thrown("BufferException")
                  ELSE EmitCatch(ClosureThrows(outcome))
           t == [NoTransfer EXCEPT !.kind = "Recorder", !.frames = frames,
                                   !.region = region, !.buffer_ok = bufferOk,
                                   !.cycle = io.cycle + 1]
       IN /\ io.cycle < MaxCycles
          /\ audio_queue + datalen <= MaxQueue
          /\ IF exc = NoExc
             THEN /\ audio_queue' = audio_queue + Len(data)
                  /\ io' = [t EXCEPT !.datalen = datalen, !.data = data,
                                     !.result = "paContinue"]
                  /\ UNCHANGED faulted
             ELSE /\ io' = [t EXCEPT
                              !.datalen = IF bufferOk THEN datalen ELSE 0,
                              !.data = IF bufferOk THEN data ELSE <<>>,
                              !.outcome = IF bufferOk THEN outcome ELSE "none",
                              !.error_calls =
                                  ErrorPath("Recorder", exc).error_calls,
                              !.error_arg =
                                  ErrorPath("Recorder", exc).error_arg,
                              !.result = ErrorPath("Recorder", exc).result]
                  /\ faulted' = TRUE
                  /\ UNCHANGED audio_queue
    /\ UNCHANGED <<streamVars, pa_init_count, deviceVars, pa_table, enumVars,
                   freeVars,
                   options, main_pc>>

\* The main thread: recorder->stop(); the player is made, its closures are
\* set and player->start() is called.
StartPlayback ==
    /\ main_pc = "recording"
    /\ main_pc' = "playing"
    /\ io' = NoTransfer
    /\ UNCHANGED <<streamVars, pa_init_count, deviceVars, pa_table, enumVars,
                   freeVars,
                   options, audio_queue, faulted>>

\* One cycle of xap_pa_play_callback while the player runs: the buffer is
\* built, the audio closure fills it from the queue, and the buffer is
\* copied to the output region.
PlayCycle(bufferOk, outcome) ==
    /\ main_pc = "playing"
    /\ io.cycle < MaxCycles
    /\ LET frames == options.frame_pre_buffer
           region == PlaybackRegion(frames, options.channel_count)
           datalen == DataLen(frames)
           popped == PopLength(datalen, audio_queue)
           data == Filled(BlankBuffer(datalen), popped)
           exc == IF ~bufferOk THEN Thrown("BufferException")
                  ELSE EmitCatch(ClosureThrows(outcome))
           t == [NoTransfer EXCEPT !.kind = "Player", !.frames = frames,
                                   !.region = region, !.buffer_ok = bufferOk,
                                   !.cycle = io.cycle + 1]
       IN IF exc = NoExc
          THEN /\ audio_queue' = audio_queue - popped
               /\ io' = [t EXCEPT !.datalen = datalen, !.data = data,
                                  !.region = Memcpy(region, data, datalen),
                                  !.written = TRUE,
                                  !.result = "paContinue"]
               /\ UNCHANGED faulted
          ELSE /\ io' = [t EXCEPT
                           !.datalen = IF bufferOk THEN datalen ELSE 0,
                           !.data = IF bufferOk THEN BlankBuffer(datalen)
                                    ELSE <<>>,
                           !.outcome = IF bufferOk THEN outcome ELSE "none",
                           !.error_calls = ErrorPath("Player", exc).error_calls,
                           !.error_arg = ErrorPath("Player", exc).error_arg,
                           !.result = ErrorPath("Player", exc).result]
               /\ faulted' = TRUE
               /\ UNCHANGED audio_queue
    /\ UNCHANGED <<streamVars, pa_init_count, deviceVars, pa_table, enumVars,
                   freeVars,
                   options, main_pc>>

\* The main thread's loop: under the queue's lock it finds the remaining
\* size 0, leaves the loop and calls player->stop(false).
MainPoll ==
    /\ main_pc = "playing"
    /\ audio_queue = 0
    /\ main_pc' = "done"
    /\ UNCHANGED <<streamVars, pa_init_count, deviceVars, pa_table, enumVars,
                   freeVars,
                   options, audio_queue, io, faulted>>

PlaySpecInit ==
    /\ StreamInit
    /\ DeviceInit
    /\ pa_table = NoTable
    /\ EnumInit
    /\ FreeInit
    /\ options \in [channel_count : 1 .. MaxChannels,
                    frame_pre_buffer : 1 .. MaxFrames]
    /\ audio_queue = 0
    /\ main_pc = "recording"
    /\ io = NoTransfer
    /\ faulted = FALSE

PlayStep ==
    \E ok \in BOOLEAN, outcome \in ClosureOutcomes : PlayCycle(ok, outcome)

PlayNext ==
    \/ \E ok \in BOOLEAN, outcome \in ClosureOutcomes :
          RecordCycle(ok, outcome)
    \/ StartPlayback
    \/ PlayStep
    \/ MainPoll

\* The main thread goes on, and the backend keeps invoking the trampoline
\* of a running stream.
PlaySpec ==
    /\ PlaySpecInit
    /\ [][PlayNext]_vars
    /\ WF_vars(StartPlayback)
    /\ WF_vars(PlayStep)
    /\ WF_vars(MainPoll)

(***************************************************************************)
(* Properties.                                                             *)
(***************************************************************************)
InvalidOperation == XapExc("ERROR_INVALIDOPERATION")
PortAudioCall == XapExc("ERROR_PORTAUDIOCALL")

\* The control thread's call has ended and its result is in op.
Returned(name) == ctl_pc = "return" /\ op.name = name
\* The trampoline has ended and its result is in cycle.
CycleOver == rt_pc = "return"

\* C1: start() on a stream whose running flag is true raises
\* ERROR_INVALIDOPERATION, issues no backend call and leaves the flag true;
\* stop(forcibly), for either value, on a stream whose flag is false raises
\* ERROR_INVALIDOPERATION, issues no backend call and leaves the flag false.
C1_WrongStateRejected ==
    /\ (Returned("start") /\ op.pre_running) =>
          /\ op.raised = InvalidOperation
          /\ op.calls = <<>>
          /\ m_is_running
    /\ (Returned("stop") /\ ~op.pre_running) =>
          /\ op.raised = InvalidOperation
          /\ op.calls = <<>>
          /\ ~m_is_running

C1_Witness ==
    /\ Returned("start")
    /\ op.pre_running
    /\ op.kind = "Recorder"
    /\ pa_stream = "active"

\* C2: start() on an Idle stream issues the backend start call; when that
\* call fails start() raises ERROR_PORTAUDIOCALL and the flag is still
\* false; when it succeeds start() raises nothing and the flag is true.
C2_StartFromIdle ==
    (Returned("start") /\ ~op.pre_running) =>
       /\ op.calls = <<"Pa_StartStream">>
       /\ Len(op.oks) = 1
       /\ op.oks[1] => (op.raised = NoExc /\ m_is_running)
       /\ ~op.oks[1] => (op.raised = PortAudioCall /\ ~m_is_running)

C2_Witness ==
    /\ Returned("start")
    /\ ~op.pre_running
    /\ op.oks = <<FALSE>>
    /\ op.kind = "Player"

\* C3: stop(forcibly) on a Running stream issues exactly one backend call,
\* Pa_AbortStream when forcibly and Pa_StopStream otherwise; the flag
\* becomes false exactly when that call succeeds, and when it fails stop
\* raises ERROR_PORTAUDIOCALL and the flag stays true.
C3_StopFromRunning ==
    (Returned("stop") /\ op.pre_running) =>
       /\ op.calls =
            <<IF op.forcibly THEN "Pa_AbortStream" ELSE "Pa_StopStream">>
       /\ Len(op.oks) = 1
       /\ m_is_running = ~op.oks[1]
       /\ op.oks[1] => op.raised = NoExc
       /\ ~op.oks[1] => op.raised = PortAudioCall

C3_Witness ==
    /\ Returned("stop")
    /\ op.pre_running
    /\ op.forcibly
    /\ op.oks = <<FALSE>>
    /\ m_is_running

\* The exception kinds derived from std::exception a closure can throw.
StdOutcomes == {"none", "std_exception", "system_error", "Exception"}
\* No lock acquisition failed in the cycle, and the closures threw nothing
\* but exceptions derived from std::exception.
ListedCombination ==
    /\ cycle.audio_cause # "lock_failure"
    /\ cycle.error_cause # "lock_failure"
    /\ cycle.audio_outcome \in StdOutcomes
    /\ cycle.error_outcome \in StdOutcomes

\* C4: every trampoline cycle, capture or playback, ends by returning
\* paContinue to the backend and no exception leaves the trampoline, for
\* every combination of audio slot empty / closure succeeds / closure
\* throws, error slot empty / closure succeeds / closure throws, and buffer
\* construction succeeding or failing.
C4_TrampolineNeverRaises ==
    (CycleOver /\ ListedCombination) => cycle.result = "paContinue"

\* C5: an audio-closure invocation the real-time thread begins never uses
\* an empty or half-assigned slot, and one it begins while no
\* set_audio_callback call is in progress uses the closure of the last
\* set_audio_callback call that returned.
SetAudioInProgress == ctl_pc \in {"seta_lock", "seta_assign", "seta_unlock"}

C6_EmptySlotIsNoOp ==
    CycleOver =>
       /\ cycle.audio_cause = "empty_slot" =>
             (cycle.audio_raised = NoExc /\ cycle.error_calls = 0)
       /\ cycle.error_cause = "empty_slot" => cycle.error_raised = NoExc

\* C7: an exception that escapes a user closure leaves the emit operation
\* as ERROR_CALLBACK, also when it is a std::system_error or an
\* xap::audioio::Exception with another code; the emit operation raises
\* ERROR_SYSTEMCALL only when the slot's lock could not be taken.
C7_ClosureFailureIsCallbackError ==
    (CycleOver /\ ListedCombination) =>
       /\ (cycle.audio_cause = "closure" /\ cycle.audio_outcome # "none") =>
             cycle.audio_raised = XapExc("ERROR_CALLBACK")
       /\ (cycle.error_cause = "closure" /\ cycle.error_outcome # "none") =>
             cycle.error_raised = XapExc("ERROR_CALLBACK")
       /\ cycle.audio_raised = XapExc("ERROR_SYSTEMCALL") =>
             cycle.audio_cause = "lock_failure"
       /\ cycle.error_raised = XapExc("ERROR_SYSTEMCALL") =>
             cycle.error_cause = "lock_failure"

\* C8: in a cycle the audio closure is invoked at most once; when it fails
\* while the error slot holds a closure (and the error slot's lock is
\* taken), that closure is invoked exactly once in that cycle, with an
\* error carrying the code of the failure; when the error closure fails
\* too, that failure is dropped: the cycle still returns paContinue.
AudioClosureFailed ==
    cycle.audio_cause = "closure" /\ cycle.audio_outcome # "none"

C8_FailureGoesToErrorClosureOnce ==
    CycleOver =>
       /\ cycle.audio_calls <= 1
       /\ cycle.error_calls <= 1
       /\ (/\ AudioClosureFailed
           /\ cycle.error_slot \in ErrorClosures
           /\ cycle.error_cause # "lock_failure") =>
             /\ cycle.error_calls = 1
             /\ cycle.error_arg = cycle.audio_raised.code
       /\ (/\ AudioClosureFailed
           /\ cycle.error_cause = "closure"
           /\ cycle.error_outcome # "none") =>
             cycle.result = "paContinue"

\* C9: a construction whose format the backend's dry run rejects fails
\* with ERROR_UNSUPPORTED, through every factory entry point of both
\* factories.
DryRunRejected ==
    /\ Returned("construct")
    /\ op.calls = <<"Pa_Initialize", "Pa_IsFormatSupported">>
    /\ op.oks = <<TRUE, FALSE>>

C9_UnsupportedFormat ==
    DryRunRejected => op.raised = XapExc("ERROR_UNSUPPORTED")

\* C10: the destructor of a Running stream raises nothing; it attempts a
\* stop, then closes the backend stream, then releases the backend
\* context, in that order, whether the stop attempt succeeds or fails, and
\* it gives back the backend initialization the constructor took; a
\* load_shared_instance() whose backend initialization is accepted
\* succeeds.
C10_DestroyRunning ==
    /\ op.name = "destruct" => op.raised = NoExc
    /\ (Returned("destruct") /\ op.pre_running) =>
          /\ op.calls =
               <<IF op.kind = "Player" THEN "Pa_AbortStream"
                 ELSE "Pa_StopStream",
                 "Pa_CloseStream", "Pa_Terminate">>
          /\ kind = "none"
          /\ pa_init_count = op.pre_init - 1
    /\ (Returned("load_shared_instance") /\ \A i \in DOMAIN op.oks : op.oks[i]) =>
          (op.raised = NoExc /\ mgr_refs >= 1)

C10_Witness ==
    /\ Returned("destruct")
    /\ op.pre_running
    /\ op.oks[1] = FALSE
    /\ op.kind = "Recorder"
    /\ mgr_refs = 1

(***************************************************************************)
(* Device queries: C14, C15, C17 (specification EnumSpec).                 *)
(***************************************************************************)
\* A device query has ended and its result is in enum_call.
Queried(name) == enum_call.name = name
QueryGave(name) == Queried(name) /\ enum_call.raised = NoExc

\* The backend indices whose device reports a capability in a direction.
InputCapable ==
    {i \in 0 .. pa_table.count - 1 :
        /\ ~pa_table.info[i + 1].null
        /\ pa_table.info[i + 1].maxInputChannels > 0}
OutputCapable ==
    {i \in 0 .. pa_table.count - 1 :
        /\ ~pa_table.info[i + 1].null
        /\ pa_table.info[i + 1].maxOutputChannels > 0}

\* A sequence of devices lists exactly the indices of a set, in increasing
\* order, and marks as default the entry of the given index.
ListsExactly(devices, indices, default_device) ==
    /\ {devices[k].device_id : k \in DOMAIN devices} = indices
    /\ \A k \in DOMAIN devices :
          /\ k > 1 => devices[k - 1].device_id < devices[k].device_id
          /\ devices[k].is_default = (devices[k].device_id = default_device)

\* C14: load_all_input_devices returns, in increasing index order, exactly
\* one entry for each backend index whose device reports input channels
\* greater than 0, with device_id the index and is_default true exactly for
\* the backend's default input index; load_all_output_devices does the same
\* with output channels and the default output index.
C14_ListsCapableDevices ==
    /\ QueryGave("load_all_input_devices") =>
          ListsExactly(enum_call.result, InputCapable, pa_table.default_input)
    /\ QueryGave("load_all_output_devices") =>
          ListsExactly(enum_call.result, OutputCapable,
                       pa_table.default_output)

C14_Witness ==
    /\ QueryGave("load_all_input_devices")
    /\ pa_table.count = 2
    /\ pa_table.info[1].maxInputChannels = 0
    /\ pa_table.info[1].maxOutputChannels > 0
    /\ Len(enum_call.result) = 1
    /\ enum_call.result[1].device_id = 1
    /\ enum_call.result[1].is_default

\* The entries of a sequence of devices that are marked as default.
Defaults(devices) == {k \in DOMAIN devices : devices[k].is_default}

LookupSucceeds(default_device) ==
    /\ default_device >= 0
    /\ default_device < Len(pa_table.info)
    /\ ~pa_table.info[default_device + 1].null

\* What C17 says of a default-device query, given the backend's default
\* index for its direction.
DefaultQueryAsClaimed(default_device) ==
    IF default_device = paNoDevice
    THEN enum_call.raised = XapExc("ERROR_NODEVICE")
    ELSE IF ~LookupSucceeds(default_device)
    THEN enum_call.raised = XapExc("ERROR_PORTAUDIOCALL")
    ELSE /\ enum_call.raised = NoExc
         /\ Len(enum_call.result) = 1
         /\ enum_call.result[1].is_default
         /\ enum_call.result[1].device_id = default_device

\* C17: load_default_input_device / load_default_output_device raise
\* ERROR_NODEVICE when the backend reports no default device for the
\* direction; otherwise they return one device with is_default = true and
\* the backend's default index as device_id, or raise ERROR_PORTAUDIOCALL
\* when the device-info lookup for that index fails.
C17_DefaultDeviceQuery ==
    /\ Queried("load_default_input_device") =>
          DefaultQueryAsClaimed(pa_table.default_input)
    /\ Queried("load_default_output_device") =>
          DefaultQueryAsClaimed(pa_table.default_output)

C17_Witness ==
    /\ Queried("load_default_input_device")
    /\ enum_call.raised = XapExc("ERROR_NODEVICE")
    /\ pa_table.count = 2
    /\ pa_table.default_output = 0

(***************************************************************************)
(* The DeviceManager singleton: C11, C12, C13, C16 (specification          *)
(* DeviceSpec).                                                            *)
(***************************************************************************)
\* The call of thread t has ended and its result is in thr[t].
ThreadReturned(t, name) == thr[t].pc = "return" /\ thr[t].name = name

\* The managers some strong reference refers to.
Referenced == {m \in Managers : managers[m].strong > 0}
\* The managers whose backend context is initialized and not yet terminated.
Initialized == {m \in Managers : managers[m].life # "none"}

\* C11: while a strong reference to the DeviceManager is held, a
\* load_shared_instance call returns a reference to that same instance and
\* makes no backend call (no second initialization); all strong references
\* refer to one instance.
C11_LiveInstanceIsShared ==
    /\ Cardinality(Referenced) <= 1
    /\ \A t \in Threads :
          (ThreadReturned(t, "load_shared_instance") /\ thr[t].pre_live # 0)
             => /\ thr[t].raised = NoExc
                /\ thr[t].mgr = thr[t].pre_live
                /\ thr[t].calls = <<>>
                /\ thr[t].made = 0

C11_Witness ==
    /\ ThreadReturned("t2", "load_shared_instance")
    /\ thr["t2"].pre_live # 0
    /\ thr["t1"].mgr = thr["t2"].mgr
    /\ thr["t1"].pc = "enum_query"
    /\ managers[thr["t2"].mgr].strong = 2

\* C12: under any interleaving of acquiring and releasing threads there are
\* never two DeviceManager instances whose backend context is initialized
\* and not yet terminated.
C12_OneInitializedManager == Cardinality(Initialized) <= 1

\* C13: the backend context of a manager is initialized when the manager
\* is constructed and terminated when its last strong reference is dropped
\* (the release that drops it calls Pa_Terminate, any other release calls
\* nothing); a load_shared_instance call that finds no strong reference
\* constructs a fresh instance and calls Pa_Initialize again.
C13_TerminateThenRestart ==
    /\ pa_init_count = Cardinality(Initialized)
    /\ \A t \in Threads :
          /\ ThreadReturned(t, "release") =>
                thr[t].calls =
                   IF thr[t].destroyed # 0 THEN <<"Pa_Terminate">> ELSE <<>>
          /\ (/\ ThreadReturned(t, "load_shared_instance")
              /\ thr[t].pre_live = 0
              /\ ~thr[t].injected)
                => /\ thr[t].raised = NoExc
                   /\ thr[t].calls = <<"Pa_Initialize">>
                   /\ thr[t].mgr # 0
                   /\ thr[t].mgr = thr[t].made
                   /\ managers[thr[t].mgr].life = "alive"
                   /\ managers[thr[t].mgr].strong >= 1

C13_Witness ==
    /\ ThreadReturned("t1", "load_shared_instance")
    /\ thr["t1"].calls = <<"Pa_Initialize">>
    /\ ThreadReturned("t2", "release")
    /\ thr["t2"].calls = <<"Pa_Terminate">>
    /\ thr["t1"].mgr = thr["t2"].destroyed
    /\ pa_init_count = 1
    /\ ~pa_raced

\* C16: with threads acquiring the DeviceManager and querying devices in
\* any interleaving, every load_all_input_devices / load_all_output_devices
\* call (in which no lock or allocation failure is injected) ends without
\* error and returns the sequence a single-threaded call returns, which is
\* not empty and has one default entry.
C16_ConcurrentQueriesAgree ==
    \A t \in Threads :
       (/\ thr[t].pc = "return"
        /\ thr[t].name \in {"load_all_input_devices",
                            "load_all_output_devices"}
        /\ ~thr[t].injected)
          => /\ thr[t].raised = NoExc
             /\ thr[t].result = QueryOutcome(thr[t].name, pa_table).result
             /\ thr[t].result # <<>>
             /\ Cardinality(Defaults(thr[t].result)) = 1

\* A cycle of the given trampoline has ended and its buffer was built.
CycleOf(k) == io.kind = k /\ io.buffer_ok

\* C19: for every cycle, the buffer handed to the audio closure (capture)
\* or copied to the output region (playback) has length
\* frames * bytes_per_frame, where bytes_per_frame is 2 bytes times the
\* stream's channel_count.
C19_BufferLengthIsFramesTimesFrameSize ==
    \A k \in Kinds :
        CycleOf(k) =>
            /\ io.datalen = io.frames * (BytesPerSample * options.channel_count)
            /\ Len(io.data) = io.datalen

\* C18: in a playback cycle, if the audio closure returns normally the
\* output region is overwritten with exactly the contents of the buffer the
\* closure filled; if the audio closure fails, the output region is not
\* written at all in that cycle and the error is passed to the error
\* closure.
C18_RegionFilledOrLeftAndErrorRedirected ==
    CycleOf("Player") =>
        IF io.outcome = "none"
        THEN /\ io.written
             /\ io.region = io.data
        ELSE /\ ~io.written
             /\ io.region =
                    PlaybackRegion(io.frames, options.channel_count)
             /\ io.error_calls = 1
             /\ io.error_arg = EmitCatch(ClosureThrows(io.outcome)).code

\* The last playback cycle copied bytes popped from the queue.
PoppedSome == \E i \in DOMAIN io.data : io.data[i] = "queued"

\* C20: in the capture-then-playback scenario, once the capture stream has
\* pushed its buffers and been stopped, the playback stream whose closure
\* pops min(buffer length, remaining) bytes per cycle eventually drains the
\* queue to remaining size zero, and the player's error closure is never
\* invoked; both unless a cycle meets a failure the scenario's closure does
\* not produce itself (the buffer cannot be allocated, a closure throws).
C20_PlaybackDrainsQueue ==
    /\ [](io.kind = "Player" /\ io.error_calls > 0 => faulted)
    /\ [](main_pc = "done" /\ ~faulted =>
              audio_queue = 0 /\ io.error_calls = 0)
    /\ (main_pc = "playing" /\ audio_queue > 0) ~>
           (faulted \/ audio_queue = 0)
    /\ (main_pc = "playing") ~> (faulted \/ main_pc = "done")

\* The main thread left its loop after a playback cycle that popped the
\* last queued bytes, and no cycle failed.
C20_Witness ==
    /\ main_pc = "done"
    /\ ~faulted
    /\ CycleOf("Player")
    /\ PoppedSome
    /\ audio_queue = 0

(***************************************************************************)
(* free_instance and disposal: C21, C26 (specification FreeSpec).          *)
(***************************************************************************)
\* A call of free_instance has ended.
FreeEnded == ctl_pc = "return" /\ op.name = "free_instance"

\* C21: free_instance(instance) raises ERROR_PARAMETER when instance is
\* null and ERROR_INVALIDOPERATION when *instance is null; otherwise it
\* releases the object and sets *instance to null, so a second
\* free_instance through the same pointer variable raises
\* ERROR_INVALIDOPERATION and the object is never released twice.
C21_FreeInstance ==
    /\ freed <= 1
    /\ FreeEnded =>
          IF op.arg = "nullptr"
          THEN op.raised = XapExc("ERROR_PARAMETER") /\ op.calls = <<>>
          ELSE IF op.old = "nullptr"
          THEN /\ op.raised = XapExc("ERROR_INVALIDOPERATION")
               /\ op.calls = <<>>
          ELSE /\ op.raised = NoExc
               /\ op.calls = <<"free">>
               /\ freed = 1
               /\ instance = "nullptr"

\* A second free_instance through the pointer variable of an object that
\* was released has ended.
C21_Witness ==
    /\ FreeEnded
    /\ op.arg = "variable"
    /\ op.old = "nullptr"
    /\ freed = 1
    /\ op.raised = XapExc("ERROR_INVALIDOPERATION")

\* C26: the backend never invokes a trampoline with a pointer to a stream
\* object whose memory has been released: however the object is disposed
\* of, the backend stream is stopped or closed before its memory is
\* released.
C26_StreamStoppedBeforeRelease ==
    /\ Released => pa_stream # "active"
    /\ rt_pc # "idle" => ~Released

(***************************************************************************)
(* Device queries: C22, C30 (specification EnumSpec).                      *)
(***************************************************************************)
\* The device-count query or the default-index query reports an error.
CountOrDefaultFails(default_device) ==
    pa_table.count < 0 \/ default_device < paNoDevice

\* The indices below the device count whose device-info lookup fails.
FailedLookups ==
    {i \in 0 .. pa_table.count - 1 : pa_table.info[i + 1].null}

\* C22 as stated: during load_all_input_devices / load_all_output_devices
\* any backend-call failure surfaces as ERROR_PORTAUDIOCALL: a negative
\* device count, a default-index query reporting an error, and a failed
\* device-info lookup for an index below the device count.
C22_BackendFailureIsPortAudioCall ==
    /\ (/\ Queried("load_all_input_devices")
        /\ (CountOrDefaultFails(pa_table.default_input)
            \/ FailedLookups # {}))
          => enum_call.raised = XapExc("ERROR_PORTAUDIOCALL")
    /\ (/\ Queried("load_all_output_devices")
        /\ (CountOrDefaultFails(pa_table.default_output)
            \/ FailedLookups # {}))
          => enum_call.raised = XapExc("ERROR_PORTAUDIOCALL")

\* What the amended C22 says of an enumeration, given the backend's default
\* index for its direction.
EnumerationFailsAsAmended(default_device) ==
    IF CountOrDefaultFails(default_device)
    THEN enum_call.raised = XapExc("ERROR_PORTAUDIOCALL")
    ELSE /\ enum_call.raised = NoExc
         /\ \A k \in DOMAIN enum_call.result :
               enum_call.result[k].device_id \notin FailedLookups

\* C22 as amended: a negative device count and a default-index query
\* reporting an error surface as ERROR_PORTAUDIOCALL; a failed device-info
\* lookup for an index below the device count raises nothing: that index
\* is left out of the result.
C22_CountOrDefaultFailureIsPortAudioCall ==
    /\ Queried("load_all_input_devices") =>
          EnumerationFailsAsAmended(pa_table.default_input)
    /\ Queried("load_all_output_devices") =>
          EnumerationFailsAsAmended(pa_table.default_output)

\* An enumeration met a failed lookup at index 0 and listed device 1.
C22_Witness ==
    /\ QueryGave("load_all_input_devices")
    /\ pa_table.count = 2
    /\ FailedLookups = {0}
    /\ Len(enum_call.result) = 1
    /\ enum_call.result[1].device_id = 1

\* The entries marked as default in the sequence an enumeration returns
\* for the backend's table.
DefaultEntries(name) ==
    LET devices == QueryOutcome(name, pa_table).result
    IN {devices[k] : k \in Defaults(devices)}

\* A device value carries the given latency fields of the backend's info.
CarriesLatencies(device, low, high) ==
    /\ device.default_low_latency = low
    /\ device.defalut_high_latency = high

\* C30: for the default input device, load_default_input_device() returns
\* the same device value as the is_default entry of
\* load_all_input_devices(), both carrying the backend's input-direction
\* latency values; the same holds for output with output-direction values.
C30_DefaultAgreesWithEnumeration ==
    /\ QueryGave("load_default_input_device") =>
          LET info == pa_table.info[pa_table.default_input + 1]
          IN /\ CarriesLatencies(enum_call.result[1],
                                 info.defaultLowInputLatency,
                                 info.defaultHighInputLatency)
             /\ \A e \in DefaultEntries("load_all_input_devices") :
                   e = enum_call.result[1]
    /\ QueryGave("load_default_output_device") =>
          LET info == pa_table.info[pa_table.default_output + 1]
          IN /\ CarriesLatencies(enum_call.result[1],
                                 info.defaultLowOutputLatency,
                                 info.defaultHighOutputLatency)
             /\ \A e \in DefaultEntries("load_all_output_devices") :
                   e = enum_call.result[1]

(***************************************************************************)
(* Slots, locks and the running flag: C23, C24, C25, C27 (specification    *)
(* Spec).                                                                  *)
(***************************************************************************)
\* The control thread is between the lock_guard's constructor and its
\* destructor in set_audio_callback / set_error_callback.
ReplacingAudio == ctl_pc \in {"seta_assign", "seta_unlock"}
ReplacingError == ctl_pc \in {"sete_assign", "sete_unlock"}

\* C23: for each slot, replacing the closure and invoking it are mutually
\* exclusive: a replacement that starts while the real-time thread is
\* inside the closure waits until that invocation ends, the invocation in
\* progress runs entirely with the old closure, and an invocation that
\* begins later uses the closure the slot then holds (all of it while the
\* stream object exists).
C23_ReplaceAndInvokeExclude ==
    /\ []((rt_pc = "in_audio" /\ kind \in Kinds) =>
             /\ ~ReplacingAudio
             /\ ~ENABLED SetAudioLock(TRUE)
             /\ cycle.invoked \in Closures
             /\ m_audio_callback = cycle.invoked)
    /\ []((rt_pc = "in_error" /\ kind \in Kinds) =>
             /\ ~ReplacingError
             /\ ~ENABLED SetErrorLock(TRUE)
             /\ cycle.error_invoked \in ErrorClosures
             /\ m_error_callback = cycle.error_invoked)
    /\ [](ReplacingAudio => ~ENABLED EmitAudioEnter(TRUE))
    /\ [](ReplacingError => ~ENABLED EmitErrorEnter(TRUE))
    /\ [][(rt_pc # "in_audio" /\ rt_pc' = "in_audio") =>
             cycle'.invoked = m_audio_callback]_vars

\* A replacement of the audio closure is waiting for the invocation of
\* the old closure to end.
C23_Witness ==
    /\ rt_pc = "in_audio"
    /\ ctl_pc = "seta_lock"
    /\ cycle.invoked = "cb1"
    /\ op.arg = "cb2"

\* C24: the audio slot and the error slot are guarded by different locks:
\* while the real-time thread is inside the audio closure every step of
\* set_error_callback can be taken, and while it is inside the error
\* closure every step of set_audio_callback can be taken (while the
\* stream object exists).
C24_SlotsHaveOwnLocks ==
    /\ (rt_pc = "in_audio" /\ kind \in Kinds) =>
          /\ ctl_pc = "idle" =>
                \A cb \in ErrorClosures : ENABLED SetErrorCall(cb)
          /\ ctl_pc = "sete_lock" => ENABLED SetErrorLock(TRUE)
          /\ ctl_pc = "sete_assign" => ENABLED SetErrorAssign
          /\ ctl_pc = "sete_unlock" => ENABLED SetErrorUnlock
    /\ (rt_pc = "in_error" /\ kind \in Kinds) =>
          /\ ctl_pc = "idle" =>
                \A cb \in Closures : ENABLED SetAudioCall(cb)
          /\ ctl_pc = "seta_lock" => ENABLED SetAudioLock(TRUE)
          /\ ctl_pc = "seta_assign" => ENABLED SetAudioAssign
          /\ ctl_pc = "seta_unlock" => ENABLED SetAudioUnlock

\* set_error_callback is about to release its lock while the real-time
\* thread is inside the audio closure.
C24_Witness ==
    /\ rt_pc = "in_audio"
    /\ ctl_pc = "sete_unlock"
    /\ m_audio_callback_lock = "rt"
    /\ m_error_callback_lock = "ctl"

\* The last backend call of the control thread's call succeeded.
LastCallOk(call) == call.oks # <<>> /\ call.oks[Len(call.oks)]

\* C25: the running flag of a stream object changes only in a successful
\* start() or a successful stop(): set_audio_callback, set_error_callback
\* and every step of a trampoline cycle, failing or not, leave it
\* unchanged.
C25_RunningFlagFrame ==
    [][/\ (m_is_running' # m_is_running /\ kind \in Kinds /\ kind' \in Kinds)
             => /\ op'.name \in {"start", "stop", "destruct"}
                /\ op'.raised = NoExc
                /\ LastCallOk(op')
                /\ m_is_running' = (op'.name = "start")
       /\ (rt_pc' # rt_pc \/ cycle' # cycle) => m_is_running' = m_is_running
       /\ (op.name \in {"set_audio_callback", "set_error_callback"}
           /\ op'.name = op.name) => m_is_running' = m_is_running]_vars

\* A cycle whose audio closure failed has ended on a stream that is still
\* Running.
C25_Witness ==
    /\ rt_pc = "return"
    /\ cycle.audio_cause = "closure"
    /\ cycle.audio_raised # NoExc
    /\ m_is_running
    /\ pa_stream = "active"

\* The place of a backend call in the calls of the control thread's call
\* (0: not called).
CallIndex(call, name) ==
    IF \E i \in DOMAIN call.calls : call.calls[i] = name
    THEN CHOOSE i \in DOMAIN call.calls : call.calls[i] = name
    ELSE 0

\* C27: construction issues the backend's open-stream call only after the
\* format-support dry run has succeeded: when the dry run rejects the
\* format, or the backend's initialization fails, no backend stream is
\* opened for that construction attempt.
C27_OpenOnlyAfterDryRun ==
    op.name = "construct" =>
       LET open == CallIndex(op, "Pa_OpenStream")
           dry == CallIndex(op, "Pa_IsFormatSupported")
           init == CallIndex(op, "Pa_Initialize")
       IN /\ open # 0 =>
                /\ init # 0 /\ init < dry /\ dry < open
                /\ op.oks[init] /\ op.oks[dry]
          /\ ((init # 0 /\ ~op.oks[init]) \/ (dry # 0 /\ ~op.oks[dry])) =>
                /\ open = 0
                /\ pa_stream = "none"
                /\ kind = "none"

\* A construction whose dry run rejected the format has ended.
C27_Witness ==
    /\ Returned("construct")
    /\ op.calls = <<"Pa_Initialize", "Pa_IsFormatSupported">>
    /\ op.oks = <<TRUE, FALSE>>
    /\ op.raised # NoExc
    /\ pa_stream = "none"

(***************************************************************************)
(* The locks of a DeviceManager: C28, C29 (specification DeviceSpec).      *)
(***************************************************************************)
\* The threads inside the backend-query section of a query of a direction
\* on manager m (between the lock_guard's constructor and its destructor).
InQuerySection(m, direction) ==
    {t \in Threads :
        /\ thr[t].pc \in {"enum_query", "enum_unlock"}
        /\ thr[t].mgr = m
        /\ thr[t].direction = direction}

\* C28: on one DeviceManager, calls of the same direction are serialized:
\* no two calls among load_all_input_devices and load_default_input_device
\* are inside their backend-query section at the same time, and likewise
\* for load_all_output_devices and load_default_output_device.
C28_SameDirectionSerialized ==
    \A m \in Managers : \A direction \in {"input", "output"} :
        /\ Cardinality(InQuerySection(m, direction)) <= 1
        /\ \A t \in InQuerySection(m, direction) :
              LockOwner(m, direction) = t

\* A thread is inside load_all_input_devices while another one, holding a
\* reference to the same manager, is about to call a query.
C28_Witness ==
    \E t, u \in Threads :
        /\ t # u
        /\ thr[t].pc = "enum_query"
        /\ thr[t].name = "load_all_input_devices"
        /\ thr[u].pc = "idle"
        /\ thr[u].mgr = thr[t].mgr
        /\ ~ENABLED EnumLock(u, "load_default_input_device", TRUE)

\* C29: input enumeration and output enumeration on the same DeviceManager
\* never wait for each other: a thread inside load_all_input_devices does
\* not block a thread entering load_all_output_devices (nor the other way
\* round), so the backend queries of the two directions can be in progress
\* at the same time.
C29_DirectionsDoNotBlock ==
    \A t, u \in Threads :
        (/\ t # u
         /\ thr[t].pc \in {"enum_query", "enum_unlock"}
         /\ thr[u].pc = "idle"
         /\ thr[u].mgr = thr[t].mgr)
           => /\ thr[t].name = "load_all_input_devices" =>
                    ENABLED EnumLock(u, "load_all_output_devices", TRUE)
              /\ thr[t].name = "load_all_output_devices" =>
                    ENABLED EnumLock(u, "load_all_input_devices", TRUE)

\* The backend queries of an input enumeration and of an output
\* enumeration on one manager are in progress at the same time.
C29_Witness ==
    \E t, u \in Threads :
        /\ thr[t].pc = "enum_query"
        /\ thr[t].name = "load_all_input_devices"
        /\ thr[u].pc = "enum_query"
        /\ thr[u].name = "load_all_output_devices"
        /\ thr[u].mgr = thr[t].mgr
(***************************************************************************)
(* Failure of the backend initialization in load_shared_instance: C31      *)
(* (specification DeviceSpec).                                             *)
(***************************************************************************)
\* The step of thread t in which new DeviceManager() ran the constructor
\* and the call of load_shared_instance ended with it: Pa_Initialize failed.
ConstructionFails(t) ==
    /\ thr[t].pc = "lsi_new"
    /\ thr'[t].pc = "return"
    /\ thr'[t].calls = <<"Pa_Initialize">>

\* The step of thread t that tests the weak back-reference while no
\* DeviceManager is referenced.
ChecksExpired(t) ==
    /\ thr[t].pc = "lsi_check"
    /\ thr'[t] # thr[t]
    /\ Referenced = {}

\* C31: if the backend initialization fails while load_shared_instance
\* constructs the DeviceManager, the call raises ERROR_PORTAUDIOCALL,
\* m_instance is not assigned and stays expired, no manager exists more
\* than before, Pa_Terminate is not called and the backend's count is
\* unchanged, and m_instance_lock is released; a load_shared_instance call
\* that then tests the back-reference goes on to construct a manager again.
C31_FailedConstructionLeavesNothing ==
    [][\A t \in Threads :
          /\ ConstructionFails(t) =>
                /\ thr'[t].raised = PortAudioCall
                /\ thr'[t].mgr = 0
                /\ thr'[t].made = 0
                /\ m_instance' = m_instance
                /\ m_instance' # 0 => managers'[m_instance'].strong = 0
                /\ managers' = managers
                /\ pa_init_count' = pa_init_count
                /\ m_instance_lock = t
                /\ m_instance_lock' = "free"
          /\ ChecksExpired(t) =>
                /\ thr'[t].pc = "lsi_new"
                /\ m_instance_lock' = t]_vars

\* A construction has failed in thread t1 and the next call, by thread t2,
\* has taken the lock, found the back-reference expired and is about to
\* construct a manager.
C31_Witness ==
    /\ ThreadReturned("t1", "load_shared_instance")
    /\ thr["t1"].calls = <<"Pa_Initialize">>
    /\ thr["t1"].raised = PortAudioCall
    /\ thr["t2"].pc = "lsi_new"
    /\ m_instance_lock = "t2"
    /\ pa_init_count = 0
(***************************************************************************)
(* Failure of the buffer construction in a trampoline: C32                 *)
(* (specification Spec).                                                   *)
(***************************************************************************)
\* The cycle's buffer could not be built.
BufferFailed == cycle.kind \in Kinds /\ ~cycle.buffer_ok

\* C32: in a cycle whose buffer construction fails, in the capture and in
\* the playback trampoline, the audio closure is not invoked (the audio
\* slot's lock is not even taken) and the error-emit path is entered with
\* an error of category ERROR_ALLOC: the cycle does not end without a call
\* of emit_error_callback, and when that call takes the error slot's lock
\* while the slot holds a closure, it invokes that closure, once, with
\* ERROR_ALLOC.
C32_BufferFailureIsAllocError ==
    /\ [](BufferFailed =>
            /\ cycle.audio_calls = 0
            /\ cycle.audio_cause = "none"
            /\ rt_pc \notin {"audio_lock", "in_audio"}
            /\ cycle.error_arg = "ERROR_ALLOC"
            /\ rt_pc = "in_error" => cycle.error_calls = 1
            /\ CycleOver =>
                  /\ cycle.error_cause # "none"
                  /\ cycle.error_calls <= 1)
    /\ [][(/\ BufferFailed
           /\ rt_pc = "error_lock"
           /\ rt_pc' # rt_pc
           /\ m_error_callback \in ErrorClosures
           /\ cycle'.error_cause # "lock_failure") =>
             /\ rt_pc' = "in_error"
             /\ cycle'.error_invoked = m_error_callback
             /\ cycle'.error_calls = 1
             /\ cycle'.error_arg = "ERROR_ALLOC"]_vars

\* The playback trampoline could not build its buffer and the error closure
\* is running.
C32_Witness ==
    /\ BufferFailed
    /\ cycle.kind = "Player"
    /\ rt_pc = "in_error"
    /\ cycle.error_invoked \in ErrorClosures
    /\ cycle.error_arg = "ERROR_ALLOC"
    /\ m_audio_callback \in Closures
(***************************************************************************)
(* Concurrent start() calls: C33 (specification RaceSpec).                 *)
(***************************************************************************)
\* Thread t can call a member function of the stream object.
CanCall(t) == thr[t].pc = "idle" /\ kind \in Kinds /\ ctl_pc = "idle"

\* C33: start() and stop() take no lock and test only the running flag:
\* whatever the other threads are doing (also while one of them is inside
\* start() or stop()), a start() call made while the flag is false passes
\* the test and goes on to the backend call, a stop() call made while the
\* flag is true does so too, and a thread that has passed the test issues
\* its backend start call without waiting; the slot locks are never taken.
C33_StartStopOnlyTestTheFlag ==
    /\ m_audio_callback_lock = "free"
    /\ m_error_callback_lock = "free"
    /\ \A t \in Threads :
          /\ (CanCall(t) /\ ~m_is_running) =>
                ENABLED (StartCheckBy(t) /\ thr'[t].pc = "start_pa")
          /\ (CanCall(t) /\ m_is_running) =>
                ENABLED (StopCheckBy(t) /\ thr'[t].pc = "stop_pa")
          /\ thr[t].pc = "start_pa" =>
                ENABLED (StartPaBy(t, TRUE) /\ thr'[t].pc = "start_set")

\* Two threads called start() on the Idle stream, both passed the test of
\* the flag before either set it, and both have issued Pa_StartStream.
C33_Witness ==
    /\ ~m_is_running
    /\ \A t \in Threads :
          /\ thr[t].pc = "start_set"
          /\ thr[t].name = "start"
          /\ thr[t].calls = <<"Pa_StartStream">>
    /\ pa_stream = "active"
(***************************************************************************)
(* Balance of the streams' Pa_Initialize / Pa_Terminate calls: C34         *)
(* (specification FreeSpec, in which only streams call the backend).       *)
(***************************************************************************)
\* No stream object exists and no call is in progress: every stream that
\* was constructed has been disposed of, by its destructor or by
\* free_instance.
AllDisposed == ctl_pc = "idle" /\ (kind = "none" \/ Released)

\* C34: once every constructed stream has been disposed of, the streams
\* have made as many Pa_Terminate calls as successful Pa_Initialize calls:
\* the backend's count of unmatched initializations is 0 again, whether
\* the constructions succeeded, were rejected by the dry run or failed at
\* Pa_OpenStream.
C34_InitializeTerminateBalanced == AllDisposed => pa_init_count = 0
(***************************************************************************)
(* The two slot locks are never nested: C35 (specification LiveSpec).      *)
(***************************************************************************)
\* A set_error_callback call is in progress.
SetErrorInProgress == ctl_pc \in {"sete_lock", "sete_assign", "sete_unlock"}
\* The thread holds both slot locks of the stream.
HoldsBoth(thread) ==
    m_audio_callback_lock = thread /\ m_error_callback_lock = thread

InAudioClosure == rt_pc \in {"in_audio", "nested_lock"}
InErrorClosure == rt_pc \in {"in_error", "nested_error_lock"}
\* The real-time thread waits in the lock() of a nested set call.
NestedWaiting == rt_pc \in {"nested_lock", "nested_error_lock"}

\* C36 as stated: the slot's lock is held for the whole duration of the
\* user closure, and a set_audio_callback call made from inside the audio
\* closure of the same stream (set_error_callback from inside its error
\* closure) never completes: no such call ever ends, by returning or by
\* throwing.
C36_NestedSetNeverCompletes ==
    /\ InAudioClosure => m_audio_callback_lock = "rt"
    /\ InErrorClosure => m_error_callback_lock = "rt"
    /\ cycle.nested \in {"none", "waiting"}

\* C36 as amended: the slot's lock is held for the whole duration of the
\* user closure, and a set call made from inside the closure of its own
\* slot never completes normally: it waits for ever for the lock its own
\* thread holds (the cycle never ends and the lock is never released), or
\* it fails with ERROR_SYSTEMCALL; in neither case is the slot replaced.
C36_NestedSetNeverSucceeds ==
    /\ [](/\ InAudioClosure => m_audio_callback_lock = "rt"
          /\ InErrorClosure => m_error_callback_lock = "rt"
          /\ cycle.nested \in {"none", "waiting", "ERROR_SYSTEMCALL"}
          /\ cycle.nested = "waiting" <=> NestedWaiting)
    /\ [][/\ NestedWaiting => (rt_pc' = rt_pc /\ cycle' = cycle)
          /\ (cycle.nested = "none" /\ cycle'.nested # "none") =>
                /\ slotVars' = slotVars
                /\ lockVars' = lockVars]_vars

\* The audio closure has called set_audio_callback, which waits for the
\* lock the real-time thread holds; the control thread's stop() waits for
\* the cycle to end.
C36_Witness ==
    /\ rt_pc = "nested_lock"
    /\ cycle.nested = "waiting"
    /\ cycle.invoked \in Closures
    /\ m_audio_callback_lock = "rt"
    /\ ctl_pc = "stop_pa"
(***************************************************************************)
(* When the user's closures run: C37 (specification Spec).                 *)
(***************************************************************************)
\* A user closure of the stream is running.
InClosure == rt_pc \in {"in_audio", "in_error"}
\* The destructor's Pa_CloseStream has returned and has closed the stream.
DtorClosed ==
    /\ op.name = "destruct"
    /\ \E i \in DOMAIN op.calls :
          op.calls[i] = "Pa_CloseStream" /\ op.oks[i]

\* C37: a user closure runs only while the backend stream is started, that
\* is from the moment start() has issued Pa_StartStream to the moment a
\* successful stop() or the destructor's close returns: an invocation
\* begins only on an existing object whose stream is started; on a stream
\* whose running flag is false (constructed and never started, or stopped
\* successfully) the real-time thread is not inside the trampoline unless
\* a start() has issued its backend call; and none runs once the
\* destructor's Pa_CloseStream has closed the stream.
C37_ClosuresOnlyWhileStarted ==
    /\ [](/\ InClosure => pa_stream = "active"
          /\ (kind \in Kinds /\ ~m_is_running /\ ctl_pc # "start_set") =>
                rt_pc = "idle"
          /\ (Returned("stop") /\ op.raised = NoExc) => rt_pc = "idle"
          /\ DtorClosed => rt_pc = "idle")
    /\ [][(~InClosure /\ InClosure') =>
             (kind \in Kinds /\ pa_stream = "active")]_vars

\* start() has issued Pa_StartStream and has not yet set the flag; the
\* audio closure is already running.
C37_Witness ==
    /\ rt_pc = "in_audio"
    /\ ctl_pc = "start_set"
    /\ ~m_is_running
    /\ cycle.invoked \in Closures
    /\ pa_stream = "active"
(***************************************************************************)
(* The running flag and the backend stream: C38 (specification Spec).      *)
(***************************************************************************)
\* No start() or stop() call is in progress on the stream, and the stream
\* object is not being destroyed.
StreamAtRest ==
    /\ kind \in Kinds
    /\ ctl_pc \notin {"start_pa", "start_set", "stop_pa", "stop_set",
                      "dtor_stop", "dtor_close", "dtor_term"}

\* C38: whenever no start() or stop() call is in progress on a stream, its
\* running flag is true exactly when the backend stream is started, and
\* false exactly when it is open and stopped, after any sequence of start
\* and stop calls, each backend call succeeding or failing (a failed call
\* leaves the backend stream as it was).
C38_FlagAgreesWithBackend ==
    StreamAtRest =>
       /\ m_is_running <=> pa_stream = "active"
       /\ ~m_is_running <=> pa_stream = "stopped"

\* A stop() whose backend call failed has returned: the flag is still true
\* and the backend stream is still started.
C38_Witness ==
    /\ Returned("stop")
    /\ op.oks = <<FALSE>>
    /\ op.raised = PortAudioCall
    /\ m_is_running
    /\ pa_stream = "active"

====
